---------------------------- MODULE Spec2Model ----------------------------
(***************************************************************************)
(* A model of the poker hand simulation engine of dPoker:                  *)
(*   src/hands_generator/bot_hands/generate_poker_data.py                  *)
(*       TableSession, PokerHandGenerator                                  *)
(*   src/poker44/hands_generator/bot_hands/sandbox_poker_bot.py            *)
(*       SandboxPokerBot                                                   *)
(*                                                                         *)
(* Money.  The program holds chips as floats of dollars that are always    *)
(* whole cents (stacks are round(..., 2), the blinds are 0.02 and 0.05,    *)
(* the bot sizes in integer cents and the engine divides by 100).  The     *)
(* model holds every amount as an integer number of cents.  round(x, 2)    *)
(* of a whole number of cents is the identity; the one place where a       *)
(* fraction of a cent is rounded is the rake (see RakeChoices).            *)
(* The engine's int(x * 100) of such an amount is taken as its number of   *)
(* cents, and int(pot * 0.25 * 100) and the like as the integer quotient.  *)
(*                                                                         *)
(* Randomness.  Every random draw of the program is an input chosen with   *)
(* \E from a bounded set: a comparison rng.random() < p with 0 < p < 1 is  *)
(* a BOOLEAN coin, a randint is one of a few values of its range.          *)
(***************************************************************************)
EXTENDS Integers, Sequences, FiniteSets, TLC

Max(a, b) == IF a >= b THEN a ELSE b
Min(a, b) == IF a <= b THEN a ELSE b

(***************************************************************************)
(* Bounds of the model.                                                    *)
(***************************************************************************)
\* the jitter draws randint(0, hi) take the values 0..MaxJitter-1 and hi
MaxJitter == 1

(***************************************************************************)
(* SandboxPokerBot                                                         *)
(***************************************************************************)
FOLD == "fold"
CHECK == "check"
CALL == "call"
BET == "bet"
RAISE == "raise"
ActionType == {FOLD, CHECK, CALL, BET, RAISE}

PREFLOP == "preflop"
FLOP == "flop"
TURN == "turn"
RIVER == "river"
Street == {PREFLOP, FLOP, TURN, RIVER}

\* hand_strength = None.  A strength is held in hundredths (0..100).
NoStrength == -1

\* BotDecision(action, amount); meta is logging only
BotDecision(action, amount) == [action |-> action, amount |-> amount]

\* BotProfile, in hundredths; the sizing fractions are the dataclass defaults,
\* which no profile of main() overrides
max_risk_fraction_of_stack == 18
bet_pot_fraction_small == 33
bet_pot_fraction_medium == 55
bet_pot_fraction_large == 80

\* A ratio n/d (d > 0) of the bot's float features.
Ratio(n, d) == [n |-> n, d |-> d]

\* _position_factor: max(0.0, min(1.0, position_index / (num_players - 1)))
position_factor(position_index, num_players) ==
    IF num_players <= 1 THEN Ratio(1, 2)
    ELSE IF position_index <= 0 THEN Ratio(0, 1)
    ELSE IF position_index >= num_players - 1 THEN Ratio(1, 1)
    ELSE Ratio(position_index, num_players - 1)

\* _pot_odds: to_call / (pot + max(0, to_call)) clamped to [0, 1]; 1.0 if denom <= 0
pot_odds(to_call, pot) ==
    LET denom == pot + Max(0, to_call) IN
    IF denom <= 0 THEN Ratio(1, 1)
    ELSE IF to_call <= 0 THEN Ratio(0, 1)
    ELSE IF to_call >= denom THEN Ratio(1, 1)
    ELSE Ratio(to_call, denom)

\* A hand strength as a ratio: a table strength h (hundredths) is h/100
StrengthRatio(hand_strength) == Ratio(hand_strength, 100)

\* _bucket_strength for a strength hs = n/d: adj = clamp(hs + 0.06 * (pos - 0.5));
\* adj < 0.38 weak, adj < 0.70 medium, else strong (the clamp to [0, 1] cannot
\* cross either threshold).  adj * 100*hs.d*pos.d is AdjScaled.
BucketOf(hs, pos) ==
    LET AdjScaled == 100 * hs.n * pos.d + 6 * pos.n * hs.d - 3 * hs.d * pos.d
        unit == hs.d * pos.d
    IN IF AdjScaled < 38 * unit THEN "weak"
       ELSE IF AdjScaled < 70 * unit THEN "medium"
       ELSE "strong"

\* _bucket_strength: None is "medium"
bucket_strength(hand_strength, pos) ==
    IF hand_strength = NoStrength THEN "medium"
    ELSE BucketOf(StrengthRatio(hand_strength), pos)

\* _risk_too_high: stack <= 0 or amount / stack > max_risk_fraction_of_stack
risk_too_high(amount, stack) ==
    IF stack <= 0 THEN TRUE
    ELSE 100 * amount > max_risk_fraction_of_stack * stack

\* _clamp: max(lo, min(hi, x))
clamp(x, lo, hi) == Max(lo, Min(hi, x))

\* rng.randint(0, hi): the draw j of 0..MaxJitter picks j, or hi when j = MaxJitter
Jitter(hi, j) == IF j >= MaxJitter THEN hi ELSE Min(j, hi)

\* _size_open_raise: int(2.4*bb) (2.9 if strong) + randint(0, int(0.6*bb)), clamped
size_open_raise(state, legal, strong, rnd) ==
    LET bb == Max(1, state.big_blind)
        base == ((IF strong THEN 29 ELSE 24) * bb) \div 10
                + Jitter((6 * bb) \div 10, rnd.jit)
    IN IF legal.can_bet THEN clamp(base, legal.min_bet, legal.max_bet) ELSE base

\* _size_bet: int(pot*frac) + randint(0, max(1, int(0.08*pot))), clamped; 0 if not can_bet
size_bet(state, legal, small, large, rnd) ==
    IF ~legal.can_bet THEN 0
    ELSE LET pot == Max(1, state.pot)
             frac == IF small THEN bet_pot_fraction_small
                     ELSE IF large THEN bet_pot_fraction_large
                     ELSE bet_pot_fraction_medium
             amt == (pot * frac) \div 100 + Jitter(Max(1, (8 * pot) \div 100), rnd.jit)
         IN clamp(amt, legal.min_bet, legal.max_bet)

\* _size_raise: to_call + int(pot * 0.65|0.40) + randint(0, max(1, int(0.06*pot))), clamped
size_raise(state, legal, large, rnd) ==
    IF ~legal.can_raise THEN 0
    ELSE LET pot == Max(1, state.pot)
             extra == (pot * (IF large THEN 65 ELSE 40)) \div 100
             amt == state.to_call + extra + Jitter(Max(1, (6 * pot) \div 100), rnd.jit)
         IN clamp(amt, legal.min_raise, legal.max_raise)

\* Fallbacks ending on a check instead of a fold
Fallbacks_check_last(state, legal) ==
    IF legal.can_call THEN BotDecision(CALL, state.to_call)
    ELSE BotDecision(CHECK, 0)

\* the last three lines of _decide_preflop and of _decide_postflop
Fallbacks(state, legal) ==
    IF legal.can_check THEN BotDecision(CHECK, 0)
    ELSE IF legal.can_call THEN BotDecision(CALL, state.to_call)
    ELSE BotDecision(FOLD, 0)

(***************************************************************************)
(* _decide_preflop.  rnd.u is the first rng.random() in hundredths (the    *)
(* pseudo strength draw), rnd.coin the outcome of the one later            *)
(* rng.random() comparison of the path taken, rnd.jit the sizing jitter.   *)
(* With hs = None: pseudo = u*0.65 + 0.35*pos, scaled by 10000*pos.d.      *)
(***************************************************************************)
decide_preflop(state, legal, strength_bucket0, pos, po, tightness, rnd) ==
    LET opening == state.to_call = 0 /\ legal.can_check
        missing == state.hand_strength = NoStrength
        pseudo == 65 * rnd.u * pos.d + 3500 * pos.n
        play_threshold == 100 * tightness * pos.d - 1000 * pos.n
        strength_bucket == IF missing THEN "medium" ELSE strength_bucket0
        hs_gt_half == IF missing THEN pseudo > 5000 * pos.d
                      ELSE state.hand_strength > 50
        weak == IF state.to_call > 0 /\ legal.can_fold
                THEN IF state.to_call > 4 * Max(1, state.big_blind)
                     THEN BotDecision(FOLD, 0)
                     ELSE IF 100 * po.n < 18 * po.d /\ 10 * pos.n > 6 * pos.d /\ rnd.coin
                     THEN BotDecision(IF legal.can_call THEN CALL ELSE FOLD, state.to_call)
                     ELSE BotDecision(FOLD, 0)
                ELSE IF opening /\ legal.can_check
                THEN BotDecision(CHECK, 0)
                ELSE Fallbacks(state, legal)
        medium == IF opening
                  THEN IF legal.can_bet /\ rnd.coin
                       THEN BotDecision(BET, size_open_raise(state, legal, FALSE, rnd))
                       ELSE BotDecision(CHECK, 0)
                  ELSE IF legal.can_call
                  THEN IF risk_too_high(state.to_call, state.stack) /\ legal.can_fold
                       THEN BotDecision(FOLD, 0)
                       ELSE IF 100 * po.n < 25 * po.d \/ hs_gt_half
                       THEN BotDecision(CALL, state.to_call)
                       ELSE IF legal.can_fold
                       THEN BotDecision(FOLD, 0)
                       ELSE Fallbacks(state, legal)
                  ELSE Fallbacks(state, legal)
        strong == IF opening
                  THEN IF legal.can_bet
                       THEN BotDecision(BET, size_open_raise(state, legal, TRUE, rnd))
                       ELSE BotDecision(CHECK, 0)
                  ELSE IF legal.can_raise /\ rnd.coin
                  THEN BotDecision(RAISE, size_raise(state, legal, TRUE, rnd))
                  ELSE IF legal.can_call
                  THEN BotDecision(CALL, state.to_call)
                  ELSE Fallbacks(state, legal)
    IN IF missing /\ pseudo < play_threshold /\ legal.can_fold
       THEN BotDecision(FOLD, 0)
       ELSE CASE strength_bucket = "weak" -> weak
              [] strength_bucket = "medium" -> medium
              [] OTHER -> strong

(***************************************************************************)
(* _decide_postflop.  With hs = None: hs = 0.25 + 0.50 * u = (50 + u)/200  *)
(* and the bucket is recomputed from it.                                   *)
(***************************************************************************)
decide_postflop(state, legal, strength_bucket0, pos, po, rnd) ==
    LET missing == state.hand_strength = NoStrength
        hs == IF missing THEN Ratio(50 + rnd.u, 200)
              ELSE StrengthRatio(state.hand_strength)
        strength_bucket == IF missing THEN BucketOf(hs, pos) ELSE strength_bucket0
        facing_bet == state.to_call > 0 /\ legal.can_call
        \* threat_level = to_call / max(1, big_blind) > 4
        threat == facing_bet /\ state.to_call > 4 * Max(1, state.big_blind)
        \* adjusted_strength = max(0, hs - 0.17) when threatened
        adjusted == IF threat THEN Ratio(Max(0, 100 * hs.n - 17 * hs.d), 100 * hs.d)
                    ELSE hs
        is_late_street == state.street \in {TURN, RIVER}
        weak_rest == IF facing_bet
                     THEN IF 100 * po.n < 14 * po.d
                             /\ 10 * adjusted.n * po.d >= 8 * po.n * adjusted.d
                          THEN BotDecision(CALL, state.to_call)
                          ELSE IF legal.can_fold THEN BotDecision(FOLD, 0)
                          ELSE Fallbacks(state, legal)
                     ELSE Fallbacks(state, legal)
        weak == IF ~facing_bet /\ (legal.can_bet \/ legal.can_raise) /\ rnd.coin
                THEN BotDecision(IF legal.can_bet THEN BET ELSE RAISE,
                                 size_bet(state, legal, TRUE, FALSE, rnd))
                ELSE weak_rest
        medium_rest == IF legal.can_bet /\ rnd.coin
                       THEN BotDecision(BET, size_bet(state, legal, FALSE, FALSE, rnd))
                       ELSE Fallbacks(state, legal)
        medium == IF facing_bet
                  THEN IF risk_too_high(state.to_call, state.stack) /\ legal.can_fold
                       THEN BotDecision(FOLD, 0)
                       ELSE IF hs.n * po.d >= po.n * hs.d
                       THEN IF legal.can_raise /\ 100 * hs.n > 55 * hs.d /\ rnd.coin
                            THEN BotDecision(RAISE, size_raise(state, legal, FALSE, rnd))
                            ELSE BotDecision(CALL, state.to_call)
                       ELSE IF legal.can_fold THEN BotDecision(FOLD, 0)
                       ELSE medium_rest
                  ELSE medium_rest
        strong == IF facing_bet /\ legal.can_raise /\ rnd.coin
                  THEN BotDecision(RAISE, size_raise(state, legal, TRUE, rnd))
                  ELSE IF facing_bet /\ legal.can_call
                  THEN BotDecision(CALL, state.to_call)
                  ELSE IF ~facing_bet /\ legal.can_bet
                  THEN BotDecision(BET, size_bet(state, legal, FALSE,
                                       is_late_street /\ 100 * hs.n > 75 * hs.d, rnd))
                  ELSE Fallbacks(state, legal)
    IN CASE strength_bucket = "weak" -> weak
         [] strength_bucket = "medium" -> medium
         [] OTHER -> strong

\* act deciding as if a bet were always allowed
act_bet_allowed(state0, csv_strength, legal, tightness, rnd) ==
    LET state == IF csv_strength # NoStrength
                 THEN [state0 EXCEPT !.hand_strength = csv_strength]
                 ELSE state0
        open == [legal EXCEPT !.can_bet = TRUE]
        pos_factor == position_factor(state.position_index, state.num_players)
        po == pot_odds(state.to_call, state.pot)
        strength_bucket == bucket_strength(state.hand_strength, pos_factor)
        decision == IF state.street = PREFLOP
                    THEN decide_preflop(state, open, strength_bucket, pos_factor, po,
                                        tightness, rnd)
                    ELSE decide_postflop(state, open, strength_bucket, pos_factor, po, rnd)
    IN [decision |-> decision, state |-> state]

(***************************************************************************)
(* act.  csv_strength is the table strength of state.hole_cards (NoStrength *)
(* without hole cards or without a table entry); act overwrites            *)
(* state.hand_strength with it.  The result holds the decision and the     *)
(* state as act leaves it.                                                 *)
(***************************************************************************)
act(state0, csv_strength, legal, tightness, rnd) ==
    LET state == IF csv_strength # NoStrength
                 THEN [state0 EXCEPT !.hand_strength = csv_strength]
                 ELSE state0
        pos_factor == position_factor(state.position_index, state.num_players)
        po == pot_odds(state.to_call, state.pot)
        strength_bucket == bucket_strength(state.hand_strength, pos_factor)
        decision == IF state.street = PREFLOP
                    THEN decide_preflop(state, legal, strength_bucket, pos_factor, po,
                                        tightness, rnd)
                    ELSE decide_postflop(state, legal, strength_bucket, pos_factor, po, rnd)
    IN [decision |-> decision, state |-> state]

(***************************************************************************)
(* TableSession and PokerHandGenerator                                     *)
(***************************************************************************)
\* PokerHandGenerator.__init__ defaults, in cents and in hundredths
sb == 2
bb == 5
rake_rate == 5
\* _run_betting_round: max_actions
max_actions == 60
\* seats of the table of Init: TableSession.max_seats, a parameter of the generator
MaxSeats == 3
\* number of names of TableSession.available_names (1000 in the program)
NamePool == 3
\* cards of a deck: 13 ranks x 4 suits
DeckSize == 52

HERO_UID == 1
\* the names of the pool are 2 .. NamePool + 1; 0 is no uid
Names == 2 .. (NamePool + 1)

\* stacks a player can hold at a hand boundary (stacks persist across hands)
StartStacks == {5, 20}
\* round(random.uniform(8.0, 12.0), 2): the stack a hero is seated or topped up with
HeroStacks == {800}
\* table strength of the hole cards dealt to a player (NoStrength: no entry)
HandStrengths == {NoStrength, 90}
\* rng.random() of the pseudo strength draws, in hundredths
UDraws == {0, 50, 99}
\* profile.tightness of the seated bots: "balanced" of main()
tightness == 55

Rnd == [u : UDraws, coin : BOOLEAN, jit : 0 .. MaxJitter]

None == [some |-> FALSE]
Some(x) == [some |-> TRUE, v |-> x]

\* indices of session.players for a table of max_seats seats
SeatIdx(max_seats) == 0 .. (max_seats - 1)

\* an empty slot of session.players (None in the program)
NoPlayer == [uid |-> 0, seat |-> 0, stack |-> 0, folded |-> FALSE,
             invested_this_street |-> 0, total_invested |-> 0,
             hole_cards |-> << >>, csv_strength |-> NoStrength]

\* Player(uid, seat, stack, is_bot=True)
Player(uid, seat, stack) == [NoPlayer EXCEPT !.uid = uid, !.seat = seat, !.stack = stack]

IsNone(p) == p.uid = 0

\* the elements of a set of integers in ascending order
RECURSIVE SortedSeq(_)
SortedSeq(S) ==
    IF S = {} THEN << >>
    ELSE LET m == CHOOSE x \in S : \A y \in S : x <= y
         IN <<m>> \o SortedSeq(S \ {m})

\* list.index(x), 0-based
IndexOf(seq, x) == (CHOOSE k \in 1 .. Len(seq) : seq[k] = x) - 1

\* [i for i, p in enumerate(self.players) if p is not None]
Occupied(players) == SortedSeq({i \in DOMAIN players : ~IsNone(players[i])})

\* TableSession.get_active_players, as the indices of the players
get_active_players(players) == Occupied(players)

\* _create_shuffled_deck: one order of the 52 cards (cards are numbered 1..52)
create_shuffled_deck == [k \in 1 .. DeckSize |-> k]

\* deal_cards that reads the cards off the end of the deck and leaves them there
deal_cards_kept(num, deck) ==
    IF Len(deck) < num
    THEN [ok |-> FALSE, cards |-> << >>, deck |-> deck]
    ELSE [ok |-> TRUE,
          cards |-> [k \in 1 .. num |-> deck[Len(deck) - k + 1]],
          deck |-> deck]

\* deal_cards that, short of cards, deals what is left
deal_cards_short(num, deck) ==
    LET n == Min(num, Len(deck))
    IN [ok |-> TRUE,
        cards |-> [k \in 1 .. n |-> deck[Len(deck) - k + 1]],
        deck |-> SubSeq(deck, 1, Len(deck) - n)]

\* _deal_cards with a deck: pops num cards off the end; ok = FALSE is the ValueError
deal_cards(num, deck) ==
    IF Len(deck) < num
    THEN [ok |-> FALSE, cards |-> << >>, deck |-> deck]
    ELSE [ok |-> TRUE,
          cards |-> [k \in 1 .. num |-> deck[Len(deck) - k + 1]],
          deck |-> SubSeq(deck, 1, Len(deck) - num)]

\* _add_action, line 598: round(amount / self.bb, 1), in tenths of a big blind
normalized_amount_bb(amount) == (20 * amount + bb) \div (2 * bb)

\* add_action with the displayed pot moved by the true delta
add_action_true_delta(actions, action_id, street, seat, action_type, amount, pot_shown, pot_true, raise_to, call_to, delta_shown, delta_true) ==
    LET delta_s == IF delta_shown.some THEN delta_shown.v ELSE amount
        delta_t == IF delta_true.some THEN delta_true.v ELSE delta_s
        pot_before == pot_shown
        pot_after == pot_shown + delta_t
    IN [actions |-> Append(actions,
                       [action_id |-> action_id, street |-> street, actor_seat |-> seat,
                        action_type |-> action_type, amount |-> amount,
                        raise_to |-> raise_to, call_to |-> call_to,
                        normalized_amount_bb |-> normalized_amount_bb(amount),
                        pot_before |-> pot_before, pot_after |-> pot_after]),
        pot_shown |-> pot_after,
        pot_true |-> pot_true + delta_t]


\* add_action with the delta taken off the displayed pot
add_action_minus(actions, action_id, street, seat, action_type, amount, pot_shown, pot_true, raise_to, call_to, delta_shown, delta_true) ==
    LET delta_s == IF delta_shown.some THEN delta_shown.v ELSE amount
        delta_t == IF delta_true.some THEN delta_true.v ELSE delta_s
        pot_before == pot_shown
        pot_after == pot_shown - delta_s
    IN [actions |-> Append(actions,
                       [action_id |-> action_id, street |-> street, actor_seat |-> seat,
                        action_type |-> action_type, amount |-> amount,
                        raise_to |-> raise_to, call_to |-> call_to,
                        normalized_amount_bb |-> normalized_amount_bb(amount),
                        pot_before |-> pot_before, pot_after |-> pot_after]),
        pot_shown |-> pot_after,
        pot_true |-> pot_true + delta_t]

\* add_action that writes the true pot as pot_before
add_action_before_true(actions, action_id, street, seat, action_type, amount, pot_shown, pot_true, raise_to, call_to, delta_shown, delta_true) ==
    LET delta_s == IF delta_shown.some THEN delta_shown.v ELSE amount
        delta_t == IF delta_true.some THEN delta_true.v ELSE delta_s
        pot_before == pot_true
        pot_after == pot_shown + delta_s
    IN [actions |-> Append(actions,
                       [action_id |-> action_id, street |-> street, actor_seat |-> seat,
                        action_type |-> action_type, amount |-> amount,
                        raise_to |-> raise_to, call_to |-> call_to,
                        normalized_amount_bb |-> normalized_amount_bb(amount),
                        pot_before |-> pot_before, pot_after |-> pot_after]),
        pot_shown |-> pot_after,
        pot_true |-> pot_true + delta_t]

\* _add_action: appends the record and returns the new (pot_shown, pot_true)
add_action(actions, action_id, street, seat, action_type, amount, pot_shown, pot_true, raise_to, call_to, delta_shown, delta_true) ==
    LET delta_s == IF delta_shown.some THEN delta_shown.v ELSE amount
        delta_t == IF delta_true.some THEN delta_true.v ELSE delta_s
        pot_before == pot_shown
        pot_after == pot_shown + delta_s
    IN [actions |-> Append(actions,
                       [action_id |-> action_id, street |-> street, actor_seat |-> seat,
                        action_type |-> action_type, amount |-> amount,
                        raise_to |-> raise_to, call_to |-> call_to,
                        normalized_amount_bb |-> normalized_amount_bb(amount),
                        pot_before |-> pot_before, pot_after |-> pot_after]),
        pot_shown |-> pot_after,
        pot_true |-> pot_true + delta_t]

\* _get_legal_actions; the comparisons are those of the dollar amounts, the bounds
\* int(x * 100)
get_legal_actions(stack, to_call, pot, current_bet) ==
    LET can_check == to_call = 0
        can_call == to_call > 0 /\ to_call <= stack
        can_fold == to_call > 0
        \* stack >= max(bb, pot * 0.25)
        can_bet == can_check /\ stack >= bb /\ 4 * stack >= pot
        \* stack >= to_call + max(bb, current_bet * 0.5)
        can_raise == to_call > 0 /\ 2 * stack >= 2 * to_call + Max(2 * bb, current_bet)
    IN [can_fold |-> can_fold, can_check |-> can_check, can_call |-> can_call,
        call_amount |-> to_call,
        can_bet |-> can_bet,
        min_bet |-> IF can_check THEN Max(bb, pot \div 4) ELSE 0,
        max_bet |-> IF can_check THEN stack ELSE 0,
        can_raise |-> can_raise,
        min_raise |-> IF to_call > 0 THEN to_call + Max(bb, current_bet \div 2) ELSE bb,
        max_raise |-> stack]

\* players of the hand that have not folded
NotFolded(players, active_players) ==
    {k \in 1 .. Len(active_players) : ~players[active_players[k]].folded}

\* _get_player_decision: the snapshot handed to the bot and the bot's answer
get_player_decision(players, active_players, idx, street, to_call, pot, current_bet, rnd) ==
    LET player == players[idx]
        legal == get_legal_actions(player.stack, to_call, pot, current_bet)
        state == [street |-> street,
                  position_index |-> player.seat - 1,
                  num_players |-> Cardinality(NotFolded(players, active_players)),
                  stack |-> player.stack, pot |-> pot, to_call |-> to_call,
                  big_blind |-> bb, hand_strength |-> NoStrength]
    IN act(state, player.csv_strength, legal, tightness, rnd).decision

(***************************************************************************)
(* _run_betting_round.  Its state is st = [players, h, r]: the session's   *)
(* players, the locals h of _generate_single_hand that it is handed        *)
(* (action_id, pot_shown, pot_true, actions, ...) and its own locals r.    *)
(* action_order and to_act are 1-based here (0-based in the program);      *)
(* last_aggressor = 0 is None.                                             *)
(***************************************************************************)
\* round_entry with the seats in ascending order on every street
round_entry_ascending(players, h, street, current_level) ==
    LET active == {k \in 1 .. Len(h.active_players) :
                     /\ ~players[h.active_players[k]].folded
                     /\ players[h.active_players[k]].stack > 0}
        keep(idx) == ~IsNone(players[idx]) /\ ~players[idx].folded
        action_order == SelectSeq(h.occupied_seats, keep)
    IN [enter |-> Cardinality(active) > 1,
        street |-> street,
        current_level |-> current_level,
        action_order |-> action_order,
        to_act |-> 1 .. Len(action_order),
        pass_list |-> << >>,
        last_aggressor |-> 0,
        last_aggressor_true_amt |-> 0,
        last_aggressor_shown_amt |-> 0,
        count |-> 0]

\* lines 383-404: the locals at the top of the round; enter = FALSE is the
\* immediate return of line 385
round_entry(players, h, street, current_level) ==
    LET active == {k \in 1 .. Len(h.active_players) :
                     /\ ~players[h.active_players[k]].folded
                     /\ players[h.active_players[k]].stack > 0}
        occ == h.occupied_seats
        start_idx == IndexOf(occ, h.bb_idx)
        order == IF street = PREFLOP
                 THEN SubSeq(occ, start_idx + 2, Len(occ)) \o SubSeq(occ, 1, start_idx + 1)
                 ELSE occ
        keep(idx) == ~IsNone(players[idx]) /\ ~players[idx].folded
        action_order == SelectSeq(order, keep)
    IN [enter |-> Cardinality(active) > 1,
        street |-> street,
        current_level |-> current_level,
        action_order |-> action_order,
        to_act |-> 1 .. Len(action_order),
        pass_list |-> << >>,
        last_aggressor |-> 0,
        last_aggressor_true_amt |-> 0,
        last_aggressor_shown_amt |-> 0,
        count |-> 0]

\* the result of add_action stored back into the hand's locals
Logged(st, a) ==
    [st EXCEPT !.h.actions = a.actions, !.h.pot_shown = a.pot_shown,
               !.h.pot_true = a.pot_true]

\* apply_fold with the aggressor reset as in the call branch
apply_fold_reset(st, i, idx) ==
    LET a == add_action(st.h.actions, st.h.action_id, st.r.street, st.players[idx].seat,
                        "fold", 0, st.h.pot_shown, st.h.pot_true, None, None, None, None)
    IN [Logged(st, a) EXCEPT !.players[idx].folded = TRUE,
                             !.r.last_aggressor = 0,
                             !.r.last_aggressor_true_amt = 0,
                             !.r.last_aggressor_shown_amt = 0,
                             !.r.to_act = @ \ {i}]

\* lines 420-425
apply_fold(st, i, idx) ==
    LET a == add_action(st.h.actions, st.h.action_id, st.r.street, st.players[idx].seat,
                        "fold", 0, st.h.pot_shown, st.h.pot_true, None, None, None, None)
    IN [Logged(st, a) EXCEPT !.players[idx].folded = TRUE,
                             !.r.to_act = @ \ {i}]

\* lines 426-430
apply_check(st, i, idx) ==
    LET a == add_action(st.h.actions, st.h.action_id, st.r.street, st.players[idx].seat,
                        "check", 0, st.h.pot_shown, st.h.pot_true, None, None, None, None)
    IN [Logged(st, a) EXCEPT !.r.to_act = @ \ {i}]

\* apply_call that leaves the last aggressor in place
apply_call_keep(st, i, idx, to_call) ==
    LET player == st.players[idx]
        amt == Min(to_call, player.stack)
        call_target == IF to_call > 0 THEN Some(st.r.current_level) ELSE None
        a == add_action(st.h.actions, st.h.action_id, st.r.street, player.seat,
                        "call", amt, st.h.pot_shown, st.h.pot_true,
                        None, call_target, None, Some(amt))
    IN [Logged(st, a) EXCEPT !.players[idx].stack = @ - amt,
                             !.players[idx].invested_this_street = @ + amt,
                             !.players[idx].total_invested = @ + amt,
                             !.r.to_act = @ \ {i}]

\* lines 431-453
apply_call(st, i, idx, to_call) ==
    LET player == st.players[idx]
        amt == Min(to_call, player.stack)
        call_target == IF to_call > 0 THEN Some(st.r.current_level) ELSE None
        a == add_action(st.h.actions, st.h.action_id, st.r.street, player.seat,
                        "call", amt, st.h.pot_shown, st.h.pot_true,
                        None, call_target, None, Some(amt))
    IN [Logged(st, a) EXCEPT !.players[idx].stack = @ - amt,
                             !.players[idx].invested_this_street = @ + amt,
                             !.players[idx].total_invested = @ + amt,
                             !.r.last_aggressor = 0,
                             !.r.last_aggressor_true_amt = 0,
                             !.r.last_aggressor_shown_amt = 0,
                             !.r.to_act = @ \ {i}]

\* line 504: everybody else who has not folded acts again
others_to_act(players, action_order, i) ==
    {j \in 1 .. Len(action_order) : j # i /\ ~players[action_order[j]].folded}

\* lines 456-478: a fresh bet (current_level == 0)
apply_bet(st, i, idx, raw_amt) ==
    LET player == st.players[idx]
        bet_size == raw_amt
        a == add_action(st.h.actions, st.h.action_id, st.r.street, player.seat,
                        "bet", bet_size, st.h.pot_shown, st.h.pot_true,
                        None, None, None, Some(bet_size))
    IN [Logged(st, a) EXCEPT !.players[idx].stack = @ - bet_size,
                             !.players[idx].invested_this_street = @ + bet_size,
                             !.players[idx].total_invested = @ + bet_size,
                             !.r.current_level = bet_size,
                             !.r.last_aggressor = i,
                             !.r.last_aggressor_true_amt = bet_size,
                             !.r.last_aggressor_shown_amt = bet_size,
                             !.r.to_act = others_to_act(st.players, st.r.action_order, i)]

\* apply_raise that takes to_invest off the stack whatever the stack holds
apply_raise_unclamped(st, i, idx, to_call, raw_amt) ==
    LET player == st.players[idx]
        raise_increment == raw_amt
        new_level == st.r.current_level + raise_increment
        to_invest == to_call + raise_increment
        a == add_action(st.h.actions, st.h.action_id, st.r.street, player.seat,
                        "raise", raise_increment, st.h.pot_shown, st.h.pot_true,
                        Some(new_level), None, None, Some(to_invest))
    IN [Logged(st, a) EXCEPT !.players[idx].stack = @ - to_invest,
                             !.players[idx].invested_this_street = @ + to_invest,
                             !.players[idx].total_invested = @ + to_invest,
                             !.r.current_level = new_level,
                             !.r.last_aggressor = i,
                             !.r.last_aggressor_true_amt = to_invest,
                             !.r.last_aggressor_shown_amt = raise_increment,
                             !.r.to_act = others_to_act(st.players, st.r.action_order, i)]

\* lines 479-503: a raise; amount and displayed pot hold the increment only
apply_raise(st, i, idx, to_call, raw_amt) ==
    LET player == st.players[idx]
        raise_increment == raw_amt
        new_level == st.r.current_level + raise_increment
        to_invest == to_call + raise_increment
        a == add_action(st.h.actions, st.h.action_id, st.r.street, player.seat,
                        "raise", raise_increment, st.h.pot_shown, st.h.pot_true,
                        Some(new_level), None, None, Some(to_invest))
    IN [Logged(st, a) EXCEPT !.players[idx].stack = @ - Min(@, to_invest),
                             !.players[idx].invested_this_street = @ + to_invest,
                             !.players[idx].total_invested = @ + to_invest,
                             !.r.current_level = new_level,
                             !.r.last_aggressor = i,
                             !.r.last_aggressor_true_amt = to_invest,
                             !.r.last_aggressor_shown_amt = raise_increment,
                             !.r.to_act = others_to_act(st.players, st.r.action_order, i)]

\* lines 454-504: decision.amount is in cents, the engine's amounts are amount / 100
apply_bet_or_raise(st, i, idx, to_call, amount) ==
    LET raw_amt == Min(amount, st.players[idx].stack)
    IN IF st.r.current_level = 0
       THEN apply_bet(st, i, idx, raw_amt)
       ELSE apply_raise(st, i, idx, to_call, raw_amt)

\* lines 507-520 and 523-536: the uncalled bet goes back out of the pots
uncalled_bet_return(st) ==
    IF st.r.last_aggressor # 0 /\ st.r.last_aggressor_shown_amt > 0
    THEN LET a == add_action(st.h.actions, st.h.action_id + 1, st.r.street,
                             st.players[st.r.action_order[st.r.last_aggressor]].seat,
                             "uncalled_bet_return", st.r.last_aggressor_shown_amt,
                             st.h.pot_shown, st.h.pot_true, None, None,
                             Some(0 - st.r.last_aggressor_shown_amt),
                             Some(0 - st.r.last_aggressor_true_amt))
         IN [Logged(st, a) EXCEPT !.h.action_id = @ + 1]
    ELSE st

\* lines 414-504: one decision of the player at position i, applied
apply_decision(st, i, idx, rnd) ==
    LET player == st.players[idx]
        to_call == Max(0, st.r.current_level - player.invested_this_street)
        decision == get_player_decision(st.players, st.h.active_players, idx, st.r.street,
                                        to_call, st.h.pot_true, st.r.current_level, rnd)
        st1 == [st EXCEPT !.h.action_id = @ + 1]
    IN CASE decision.action = FOLD -> apply_fold(st1, i, idx)
         [] decision.action = CHECK -> apply_check(st1, i, idx)
         [] decision.action = CALL -> apply_call(st1, i, idx, to_call)
         [] OTHER -> apply_bet_or_raise(st1, i, idx, to_call, decision.amount)

\* one_left with < for <=
one_left_strict(st) == Cardinality(NotFolded(st.players, st.h.active_players)) < 1

\* line 506: at most one player of the hand has not folded
one_left(st) == Cardinality(NotFolded(st.players, st.h.active_players)) <= 1

\* the body of the for loop asking every listed player, folded or without chips too
for_body_unguarded(st, i, rnd) ==
    LET idx == st.r.action_order[i]
        st2 == apply_decision(st, i, idx, rnd)
    IN IF one_left(st2)
       THEN [st |-> uncalled_bet_return(st2), exit |-> TRUE]
       ELSE [st |-> st2, exit |-> FALSE]

\* lines 408-521: the body of the for loop for position i.  exit is the return
\* of line 521.
for_body(st, i, rnd) ==
    LET idx == st.r.action_order[i]
        player == st.players[idx]
    IN IF player.folded \/ player.stack <= 0
       THEN [st |-> [st EXCEPT !.r.to_act = @ \ {i}], exit |-> FALSE]
       ELSE LET st2 == apply_decision(st, i, idx, rnd)
            IN IF one_left(st2)
               THEN [st |-> uncalled_bet_return(st2), exit |-> TRUE]
               ELSE [st |-> st2, exit |-> FALSE]

\* line 406: while to_act and count < max_actions
loop_continues(r) == r.to_act # {} /\ r.count < max_actions

\* pass_begin without count += 1
pass_begin_uncounted(r) == [r EXCEPT !.pass_list = SortedSeq(r.to_act)]

\* lines 407-408: count += 1, and the pass walks list(to_act) as it stands now
pass_begin(r) == [r EXCEPT !.count = @ + 1, !.pass_list = SortedSeq(r.to_act)]

(***************************************************************************)
(* _finalize_hand and the canonicalization of the hand record              *)
(***************************************************************************)
\* round(pot_shown * rake_rate, 2): the nearest cent; on a tie (half a cent) the
\* float product falls on either side
RakeChoices(pot_shown) ==
    LET scaled == pot_shown * rake_rate
        lo == scaled \div 100
        rest == scaled % 100
    IN IF rest < 50 THEN {lo}
       ELSE IF rest > 50 THEN {lo + 1}
       ELSE {lo, lo + 1}

\* sorted(..., key=seat) of a sequence of records with distinct seats
RECURSIVE SortBySeat(_)
SortBySeat(seq) ==
    IF seq = << >> THEN << >>
    ELSE LET k == CHOOSE a \in 1 .. Len(seq) : \A b \in 1 .. Len(seq) : seq[a].seat <= seq[b].seat
             rest == [j \in 1 .. (Len(seq) - 1) |-> IF j < k THEN seq[j] ELSE seq[j + 1]]
         IN <<seq[k]>> \o SortBySeat(rest)

\* rotate_to_button_one that leaves the record as it is
rotate_not(hand) == hand

\* rotate_to_button_one that moves the players and the metadata and leaves the actions
rotate_players_only(hand) ==
    LET button == hand.metadata.button_seat
        seats == hand.metadata.max_seats
        shift == (button - 1) % seats
        rotate_seat(seat) == ((seat - 1 - shift) % seats) + 1
        heroes == {k \in 1 .. Len(hand.players) : hand.players[k].player_uid = HERO_UID}
    IN IF shift = 0 THEN hand
       ELSE [hand EXCEPT
               !.players = SortBySeat([k \in 1 .. Len(hand.players) |->
                              [hand.players[k] EXCEPT !.seat = rotate_seat(@)]]),
               !.metadata.button_seat = 1,
               !.metadata.hero_seat = IF heroes = {} THEN @
                                      ELSE rotate_seat(hand.players[CHOOSE k \in heroes : TRUE].seat)]

\* _rotate_to_button_one
rotate_to_button_one(hand) ==
    LET button == hand.metadata.button_seat
        seats == hand.metadata.max_seats
        shift == (button - 1) % seats
        rotate_seat(seat) == ((seat - 1 - shift) % seats) + 1
        rotated_players == SortBySeat([k \in 1 .. Len(hand.players) |->
                              [hand.players[k] EXCEPT !.seat = rotate_seat(@)]])
        heroes == {k \in 1 .. Len(hand.players) : hand.players[k].player_uid = HERO_UID}
        new_hero_seat == IF heroes = {} THEN hand.metadata.hero_seat
                         ELSE rotate_seat(hand.players[CHOOSE k \in heroes :
                                                         \A j \in heroes : j <= k].seat)
    IN IF shift = 0 THEN hand
       ELSE [hand EXCEPT
               !.players = rotated_players,
               !.actions = [k \in 1 .. Len(hand.actions) |->
                              [hand.actions[k] EXCEPT !.actor_seat = rotate_seat(@)]],
               !.metadata.button_seat = 1,
               !.metadata.hero_seat = new_hero_seat]

\* contiguize_seats that leaves the record as it is
contiguize_not(hand) == hand

\* _contiguize_seats
contiguize_seats(hand) ==
    LET seats == SortedSeq({hand.players[k].seat : k \in 1 .. Len(hand.players)})
        mapped(seat) == IF \E k \in 1 .. Len(seats) : seats[k] = seat
                        THEN IndexOf(seats, seat) + 1
                        ELSE seat
    IN IF seats = [k \in 1 .. Len(seats) |-> k] THEN hand
       ELSE [hand EXCEPT
               !.players = SortBySeat([k \in 1 .. Len(hand.players) |->
                              [hand.players[k] EXCEPT !.seat = mapped(@)]]),
               !.actions = [k \in 1 .. Len(hand.actions) |->
                              [hand.actions[k] EXCEPT !.actor_seat = mapped(@)]],
               !.metadata.hero_seat = IF @ # 0 THEN mapped(@) ELSE @,
               !.metadata.button_seat = IF @ # 0 THEN mapped(@) ELSE @]

\* hand_ended_on_street that says preflop whatever was dealt
hand_ended_preflop(streets_shown) == PREFLOP

\* lines 656-665
hand_ended_on_street(streets_shown) ==
    IF streets_shown # << >>
    THEN LET last_board == streets_shown[Len(streets_shown)].board_cards
         IN IF Len(last_board) = 5 THEN RIVER
            ELSE IF Len(last_board) = 4 THEN TURN
            ELSE FLOP
    ELSE PREFLOP

\* still_in without the filter on folded
still_in_all(players, active_players) == active_players

\* lines 605-612: the players of the hand that have not folded, in hand order
still_in(players, active_players) ==
    SelectSeq(active_players, LAMBDA idx : ~players[idx].folded)

\* payout_of without the rake: the winner is paid the whole pot
payout_of_gross(pot_shown, rake) == pot_shown

\* lines 614-615
payout_of(pot_shown, rake) == pot_shown - rake

\* _finalize_hand with a metadata that has no ante
finalize_hand_no_ante(max_seats, button_seat, players, h, winner_idx, rake) ==
    LET in == still_in(players, h.active_players)
        showdown == Len(in) > 1
        reason == IF showdown THEN "showdown" ELSE "fold"
        payout == payout_of(h.pot_shown, rake)
        paid == [players EXCEPT ![winner_idx].stack = @ + payout]
        winner == paid[winner_idx]
        revealed(p) == p.uid = HERO_UID \/ (showdown /\ ~p.folded)
        listed == SortBySeat([k \in 1 .. Len(h.active_players) |-> paid[h.active_players[k]]])
        hand == [metadata |-> [game_type |-> "Hold'em",
                               limit_type |-> "No Limit",
                               max_seats |-> max_seats,
                               hero_seat |-> paid[h.hero_idx].seat,
                               hand_ended_on_street |-> hand_ended_on_street(h.streets_shown),
                               button_seat |-> button_seat,
                               sb |-> sb, bb |-> bb,
                               rng_seed_commitment |-> None],
                 players |-> [k \in 1 .. Len(listed) |->
                                [player_uid |-> listed[k].uid,
                                 seat |-> listed[k].seat,
                                 starting_stack |-> listed[k].stack + listed[k].total_invested,
                                 hole_cards |-> IF revealed(listed[k])
                                                THEN listed[k].hole_cards ELSE << >>,
                                 showed_hand |-> listed[k].hole_cards # << >>
                                                 /\ revealed(listed[k])]],
                 streets |-> h.streets_shown,
                 actions |-> h.actions,
                 outcome |-> [winners |-> <<winner.uid>>,
                              payouts |-> [u \in {winner.uid} |-> payout],
                              total_pot |-> h.pot_shown,
                              rake |-> rake,
                              result_reason |-> reason,
                              showdown |-> reason = "showdown"],
                 label |-> "bot"]
    IN [players |-> paid, hand |-> contiguize_seats(rotate_to_button_one(hand))]

\* _finalize_hand: winner_idx is random.choice(still_in) at a showdown, rake one of
\* RakeChoices(pot_shown).  Gives the players after the payout and the record.
finalize_hand(max_seats, button_seat, players, h, winner_idx, rake) ==
    LET in == still_in(players, h.active_players)
        showdown == Len(in) > 1
        reason == IF showdown THEN "showdown" ELSE "fold"
        payout == payout_of(h.pot_shown, rake)
        paid == [players EXCEPT ![winner_idx].stack = @ + payout]
        winner == paid[winner_idx]
        revealed(p) == p.uid = HERO_UID \/ (showdown /\ ~p.folded)
        listed == SortBySeat([k \in 1 .. Len(h.active_players) |-> paid[h.active_players[k]]])
        hand == [metadata |-> [game_type |-> "Hold'em",
                               limit_type |-> "No Limit",
                               max_seats |-> max_seats,
                               hero_seat |-> paid[h.hero_idx].seat,
                               hand_ended_on_street |-> hand_ended_on_street(h.streets_shown),
                               button_seat |-> button_seat,
                               sb |-> sb, bb |-> bb,
                               ante |-> 0,
                               rng_seed_commitment |-> None],
                 players |-> [k \in 1 .. Len(listed) |->
                                [player_uid |-> listed[k].uid,
                                 seat |-> listed[k].seat,
                                 starting_stack |-> listed[k].stack + listed[k].total_invested,
                                 hole_cards |-> IF revealed(listed[k])
                                                THEN listed[k].hole_cards ELSE << >>,
                                 showed_hand |-> listed[k].hole_cards # << >>
                                                 /\ revealed(listed[k])]],
                 streets |-> h.streets_shown,
                 actions |-> h.actions,
                 outcome |-> [winners |-> <<winner.uid>>,
                              payouts |-> [u \in {winner.uid} |-> payout],
                              total_pot |-> h.pot_shown,
                              rake |-> rake,
                              result_reason |-> reason,
                              showdown |-> reason = "showdown"],
                 label |-> "bot"]
    IN [players |-> paid, hand |-> contiguize_seats(rotate_to_button_one(hand))]

(***************************************************************************)
(* consistency_checker: what validate_hand holds a record's streets to     *)
(***************************************************************************)
\* _hand_ended_from_board
hand_ended_from_board(streets) ==
    IF streets = << >> THEN PREFLOP
    ELSE LET last_board == streets[Len(streets)].board_cards
         IN IF Len(last_board) = 5 THEN RIVER
            ELSE IF Len(last_board) = 4 THEN TURN
            ELSE IF Len(last_board) = 3 THEN FLOP
            ELSE PREFLOP

\* validate_hand, lines 97-108: the board of a street has the length of its name
board_sane(street) ==
    /\ street.street = FLOP => Len(street.board_cards) = 3
    /\ street.street = TURN => Len(street.board_cards) = 4
    /\ street.street = RIVER => Len(street.board_cards) = 5

\* hand_json.py: V0_JSON_HAND, with the first player, street and action of its lists
\* (the elements the validator takes the expected keys from); amounts in cents
V0_JSON_HAND ==
    [metadata |-> [game_type |-> "Hold'em", limit_type |-> "No Limit", max_seats |-> 6,
                   hero_seat |-> 1, hand_ended_on_street |-> FLOP, button_seat |-> 1,
                   sb |-> 2, bb |-> 5, ante |-> 0, rng_seed_commitment |-> None],
     players |-> <<[player_uid |-> 1, seat |-> 1, starting_stack |-> 500,
                    hole_cards |-> <<1, 2>>, showed_hand |-> TRUE]>>,
     streets |-> <<[street |-> FLOP, board_cards |-> <<3, 4, 5>>]>>,
     actions |-> <<[action_id |-> 1, street |-> PREFLOP, actor_seat |-> 2,
                    action_type |-> "small_blind", amount |-> 2, raise_to |-> None,
                    call_to |-> None, normalized_amount_bb |-> 4, pot_before |-> 0,
                    pot_after |-> 2]>>,
     outcome |-> [winners |-> <<1>>, payouts |-> [u \in {1} |-> 91], total_pot |-> 97,
                  rake |-> 6, result_reason |-> "fold", showdown |-> FALSE],
     label |-> "human"]

expected_top_keys == DOMAIN V0_JSON_HAND
expected_metadata_keys == DOMAIN V0_JSON_HAND.metadata
expected_outcome_keys == DOMAIN V0_JSON_HAND.outcome
expected_player_keys == DOMAIN V0_JSON_HAND.players[1]
expected_street_keys == DOMAIN V0_JSON_HAND.streets[1]
expected_action_keys == DOMAIN V0_JSON_HAND.actions[1]

\* dict.get(key, default)
Get(dict, key, default) == IF key \in DOMAIN dict THEN dict[key] ELSE default

\* the empty dict
NoKeys == << >>

\* one entry of the violation list: what is wrong and at which index of its list
\* (counted from 0 as enumerate does; 0 for the record itself)
Violation(what, at) == [what |-> what, at |-> at]
ErrorIf(wrong, what, at) == IF wrong THEN <<Violation(what, at)>> ELSE << >>

RECURSIVE Flatten(_)
Flatten(lists) ==
    IF lists = << >> THEN << >> ELSE Head(lists) \o Flatten(Tail(lists))

RECURSIVE SumOfValues(_)
\* sum(payouts.values())
SumOfValues(dict) ==
    IF DOMAIN dict = {} THEN 0
    ELSE LET key == CHOOSE k \in DOMAIN dict : TRUE
         IN dict[key] + SumOfValues([k \in DOMAIN dict \ {key} |-> dict[k]])

\* validate_hand, lines 88-95: a player's keys, then its hole cards (<< >> is None)
player_errors(player, p_idx) ==
    ErrorIf(DOMAIN player # expected_player_keys, "player keys", p_idx)
    \o ErrorIf(Get(player, "hole_cards", << >>) # << >>
               /\ Len(Get(player, "hole_cards", << >>)) # 2, "hole_cards", p_idx)

\* validate_hand, lines 98-108: a street's keys, then its board's length
street_errors(street, s_idx) ==
    LET board_cards == Get(street, "board_cards", << >>)
        name == Get(street, "street", "")
    IN ErrorIf(DOMAIN street # expected_street_keys, "street keys", s_idx)
       \o ErrorIf(name = FLOP /\ Len(board_cards) # 3, "flop", s_idx)
       \o ErrorIf(name = TURN /\ Len(board_cards) # 4, "turn", s_idx)
       \o ErrorIf(name = RIVER /\ Len(board_cards) # 5, "river", s_idx)

\* validate_hand, lines 63-120: the violation list in the order the code appends to it
violations(hand) ==
    LET meta == Get(hand, "metadata", NoKeys)
        outcome == Get(hand, "outcome", NoKeys)
        players == Get(hand, "players", << >>)
        streets == Get(hand, "streets", << >>)
        actions == Get(hand, "actions", << >>)
        payouts_sum == SumOfValues(Get(outcome, "payouts", NoKeys))
    IN ErrorIf(DOMAIN hand # expected_top_keys, "top-level keys", 0)
       \o ErrorIf(DOMAIN meta # expected_metadata_keys, "metadata keys", 0)
       \o (IF DOMAIN outcome # expected_outcome_keys
           THEN <<Violation("outcome keys", 0)>>
           ELSE ErrorIf(payouts_sum + outcome.rake # outcome.total_pot, "total_pot", 0))
       \o Flatten([k \in 1 .. Len(players) |-> player_errors(players[k], k - 1)])
       \o Flatten([k \in 1 .. Len(streets) |-> street_errors(streets[k], k - 1)])
       \o Flatten([k \in 1 .. Len(actions) |->
                     ErrorIf(DOMAIN actions[k] # expected_action_keys, "action keys", k - 1)])
       \o ErrorIf(Get(meta, "hand_ended_on_street", "") # hand_ended_from_board(streets),
                  "hand_ended_on_street", 0)

\* _hand_ended_from_board raises KeyError on a last street without board_cards
board_lost(hand) ==
    LET streets == Get(hand, "streets", << >>)
    IN streets # << >> /\ "board_cards" \notin DOMAIN streets[Len(streets)]

\* validate_hand that writes the end of the hand it expects into the record
validate_hand_fixing(hand) ==
    LET fixed == IF "metadata" \notin DOMAIN hand THEN hand
                 ELSE [hand EXCEPT !.metadata =
                         [k \in DOMAIN hand.metadata \cup {"hand_ended_on_street"} |->
                            IF k = "hand_ended_on_street"
                            THEN hand_ended_from_board(Get(hand, "streets", << >>))
                            ELSE hand.metadata[k]]]
    IN IF board_lost(hand) THEN [raised |-> TRUE, errors |-> << >>, hand |-> hand]
       ELSE [raised |-> FALSE, errors |-> violations(hand), hand |-> fixed]

\* validate_hand: the violation list (or the KeyError) and the record as the call
\* leaves it; the code only reads the record
validate_hand(hand) ==
    IF board_lost(hand) THEN [raised |-> TRUE, errors |-> << >>, hand |-> hand]
    ELSE [raised |-> FALSE, errors |-> violations(hand), hand |-> hand]

(***************************************************************************)
(* TableSession between hands: the button moves on, players leave and join *)
(***************************************************************************)
\* _remove_player: seat_index is the seat number
remove_player(s, seat_index) ==
    IF seat_index = s.hero_seat \/ IsNone(s.players[seat_index - 1]) THEN s
    ELSE [s EXCEPT !.available_names = Append(@, s.players[seat_index - 1].uid),
                   !.players[seat_index - 1] = NoPlayer]

\* add_player_to_seat that leaves the name it hands out in available_names
add_player_to_seat_keeping_name(s, seat_index, stack) ==
    IF seat_index = s.hero_seat \/ ~IsNone(s.players[seat_index - 1]) THEN s
    ELSE IF s.available_names = << >> THEN s
    ELSE [s EXCEPT !.players[seat_index - 1] =
                       Player(s.available_names[Len(s.available_names)], seat_index, stack)]

\* _add_player_to_seat: the name is popped off the end of available_names,
\* stack is round(random.uniform(4.0, 15.0), 2)
add_player_to_seat(s, seat_index, stack) ==
    IF seat_index = s.hero_seat \/ ~IsNone(s.players[seat_index - 1]) THEN s
    ELSE IF s.available_names = << >> THEN s
    ELSE [s EXCEPT !.available_names = SubSeq(@, 1, Len(@) - 1),
                   !.players[seat_index - 1] =
                       Player(s.available_names[Len(s.available_names)], seat_index, stack)]

\* rotate_button
rotate_button(s) ==
    LET occupied == Occupied(s.players)
        curr_idx == IF \E k \in 1 .. Len(occupied) : occupied[k] = s.button_position
                    THEN IndexOf(occupied, s.button_position)
                    ELSE 0
        next_idx == (curr_idx + 1) % Len(occupied)
    IN IF occupied = << >> THEN s
       ELSE [s EXCEPT !.button_position = occupied[next_idx + 1]]

\* line 129: the seat indexes of the seated players but the hero
occupied_non_hero(s) ==
    LET hero_idx == IF s.hero_seat # 0 THEN s.hero_seat - 1 ELSE 0
    IN {i \in SeatIdx(s.max_seats) : i # hero_idx /\ ~IsNone(s.players[i])}

\* line 130: the seat numbers of the empty seats but the hero's
empty_seats(s) ==
    LET hero_idx == IF s.hero_seat # 0 THEN s.hero_seat - 1 ELSE 0
    IN {i + 1 : i \in {j \in SeatIdx(s.max_seats) : j # hero_idx /\ IsNone(s.players[j])}}

\* handle_player_changes: leave and join are the two draws of random.random(),
\* leaving_idx the draw of random.choices (every weight is positive), join_seat
\* the draw of random.choice(empty_seats), stack the newcomer's buy-in
handle_player_changes(s, leave, leaving_idx, join, join_seat, stack) ==
    LET s1 == IF Cardinality(occupied_non_hero(s)) > 1 /\ leave
              THEN remove_player(s, leaving_idx + 1)
              ELSE s
    IN IF empty_seats(s) # {} /\ join
       THEN add_player_to_seat(s1, join_seat, stack)
       ELSE s1

(***************************************************************************)
(* State                                                                   *)
(***************************************************************************)
VARIABLES
    session,    \* TableSession: players, button_position, hero_seat, hand_number,
                \* available_names
    pc,         \* where the generator stands: "idle" before _generate_single_hand,
                \* "while" at line 406, "for" inside a pass of line 408,
                \* "after_round" back in _generate_single_hand, "hand_done" returned
    h,          \* locals of _generate_single_hand
    r,          \* locals of _run_betting_round
    hand,       \* what _generate_single_hand returned: None or Some(record)
    gen,        \* locals of generate_hands: hand_in_session, session_length
    bot,        \* a call of SandboxPokerBot.act on its own: inputs and result
    call        \* a call of one of the other functions on its own: inputs and result

vars == <<session, pc, h, r, hand, gen, bot, call>>

NoLocals == [active_players |-> << >>, occupied_seats |-> << >>, bb_idx |-> 0,
             sb_idx |-> 0, hero_idx |-> 0, pot_true |-> 0, pot_shown |-> 0,
             action_id |-> 0, actions |-> << >>, streets_shown |-> << >>,
             deck |-> << >>, board |-> << >>, start_stacks |-> << >>]

NoRound == [enter |-> FALSE, street |-> PREFLOP, current_level |-> 0,
            action_order |-> << >>, to_act |-> {}, pass_list |-> << >>,
            last_aggressor |-> 0, last_aggressor_true_amt |-> 0,
            last_aggressor_shown_amt |-> 0, count |-> 0]

NoBot == [called |-> FALSE]

NoCall == [called |-> FALSE]

\* one hand of a session
OneHand == [hand_in_session |-> 0, session_length |-> 1]

(***************************************************************************)
(* Init: a table session at a hand boundary.  The hero sits at hero_seat,  *)
(* every other seat is empty or holds a bot; names are handed out from the *)
(* end of available_names as _add_player_to_seat does (the shuffle of the  *)
(* pool is one order: names are opaque).                                   *)
(***************************************************************************)
SeatedTable(hero_seat, stacks, pool) ==
    LET bots == SortedSeq({i \in DOMAIN stacks : i # hero_seat - 1 /\ stacks[i] > 0})
        name(i) == pool + 1 - IndexOf(bots, i)
    IN [players |-> [i \in DOMAIN stacks |->
                       IF i = hero_seat - 1 THEN Player(HERO_UID, hero_seat, stacks[i])
                       ELSE IF stacks[i] > 0 THEN Player(name(i), i + 1, stacks[i])
                       ELSE NoPlayer],
        available_names |-> [k \in 1 .. (pool - Len(bots)) |-> k + 1]]

Init ==
    /\ \E hero_seat \in 1 .. MaxSeats, button \in SeatIdx(MaxSeats),
          stacks \in [SeatIdx(MaxSeats) -> StartStacks \cup {0}] :
          /\ stacks[hero_seat - 1] > 0
          /\ Cardinality({i \in SeatIdx(MaxSeats) : stacks[i] > 0}) - 1 <= NamePool
          /\ LET t == SeatedTable(hero_seat, stacks, NamePool)
             IN session = [max_seats |-> MaxSeats,
                           players |-> t.players,
                           button_position |-> button,
                           hero_seat |-> hero_seat,
                           hand_number |-> 0,
                           available_names |-> t.available_names]
    /\ pc = "idle"
    /\ h = NoLocals
    /\ r = NoRound
    /\ hand = None
    /\ gen = OneHand
    /\ bot = NoBot
    /\ call = NoCall

(***************************************************************************)
(* _generate_single_hand, lines 238-339: up to the top of the preflop round *)
(***************************************************************************)
\* lines 275-282: two hole cards each off the deck, the per-hand fields reset
RECURSIVE deal_hole_cards(_, _, _, _)
deal_hole_cards(players, active_players, deck, strengths) ==
    IF active_players = << >> THEN [players |-> players, deck |-> deck]
    ELSE LET idx == Head(active_players)
             d == deal_cards(2, deck)
             dealt == [players EXCEPT ![idx].hole_cards = d.cards,
                                      ![idx].csv_strength = strengths[idx],
                                      ![idx].folded = FALSE,
                                      ![idx].invested_this_street = 0,
                                      ![idx].total_invested = 0]
         IN deal_hole_cards(dealt, Tail(active_players), d.deck, strengths)

\* lines 301-334: the small and the big blind
post_blinds(players, h0) ==
    LET sb_player == players[h0.sb_idx]
        sb_amt == Min(sb, sb_player.stack)
        a1 == add_action(h0.actions, h0.action_id + 1, PREFLOP, sb_player.seat,
                         "small_blind", sb_amt, h0.pot_shown, h0.pot_true,
                         None, None, None, None)
        p1 == [players EXCEPT ![h0.sb_idx].stack = @ - sb_amt,
                              ![h0.sb_idx].invested_this_street = sb_amt,
                              ![h0.sb_idx].total_invested = sb_amt]
        bb_player == p1[h0.bb_idx]
        bb_amt == Min(bb, bb_player.stack)
        a2 == add_action(a1.actions, h0.action_id + 2, PREFLOP, bb_player.seat,
                         "big_blind", bb_amt, a1.pot_shown, a1.pot_true,
                         None, None, None, None)
        p2 == [p1 EXCEPT ![h0.bb_idx].stack = @ - bb_amt,
                         ![h0.bb_idx].invested_this_street = bb_amt,
                         ![h0.bb_idx].total_invested = bb_amt]
    IN [players |-> p2,
        h |-> [h0 EXCEPT !.action_id = @ + 2, !.actions = a2.actions,
                         !.pot_shown = a2.pot_shown, !.pot_true = a2.pot_true],
        current_level |-> bb_amt]

\* seat_hero_and_remove_busted that leaves the busted bots seated
seat_hero_keep_busted(s, hero_stack) ==
    LET hero_idx == IF s.hero_seat # 0 THEN s.hero_seat - 1 ELSE 0
        p1 == IF IsNone(s.players[hero_idx])
              THEN [s.players EXCEPT ![hero_idx] =
                       Player(HERO_UID, IF s.hero_seat # 0 THEN s.hero_seat ELSE 1, hero_stack)]
              ELSE s.players
        p2 == IF p1[hero_idx].stack <= 0
              THEN [p1 EXCEPT ![hero_idx].stack = hero_stack]
              ELSE p1
    IN p2

\* seat_hero_and_remove_busted that does not top up a depleted hero
seat_hero_no_top_up(s, hero_stack) ==
    LET hero_idx == IF s.hero_seat # 0 THEN s.hero_seat - 1 ELSE 0
        p1 == IF IsNone(s.players[hero_idx])
              THEN [s.players EXCEPT ![hero_idx] =
                       Player(HERO_UID, IF s.hero_seat # 0 THEN s.hero_seat ELSE 1, hero_stack)]
              ELSE s.players
        p2 == p1
    IN [i \in DOMAIN p2 |->
          IF i # hero_idx /\ ~IsNone(p2[i]) /\ p2[i].stack <= 0 THEN NoPlayer ELSE p2[i]]

\* lines 240-262: the hero is seated and topped up, busted bots leave
seat_hero_and_remove_busted(s, hero_stack) ==
    LET hero_idx == IF s.hero_seat # 0 THEN s.hero_seat - 1 ELSE 0
        p1 == IF IsNone(s.players[hero_idx])
              THEN [s.players EXCEPT ![hero_idx] =
                       Player(HERO_UID, IF s.hero_seat # 0 THEN s.hero_seat ELSE 1, hero_stack)]
              ELSE s.players
        p2 == IF p1[hero_idx].stack <= 0
              THEN [p1 EXCEPT ![hero_idx].stack = hero_stack]
              ELSE p1
    IN [i \in DOMAIN p2 |->
          IF i # hero_idx /\ ~IsNone(p2[i]) /\ p2[i].stack <= 0 THEN NoPlayer ELSE p2[i]]

\* whether lines 240-255 draw a hero stack
HeroNeedsStack(s) ==
    LET hero_idx == IF s.hero_seat # 0 THEN s.hero_seat - 1 ELSE 0
    IN IsNone(s.players[hero_idx]) \/ s.players[hero_idx].stack <= 0

\* line 406 reached, or the round returned at once (line 385)
RoundPc(rr) == IF rr.enter THEN "while" ELSE "after_round"

\* start_hand with the small blind on the button and the big blind next to it
start_hand_button_blind(s, seated, strengths) ==
    LET active_players == get_active_players(seated)
        dealt == deal_hole_cards(seated, active_players, create_shuffled_deck, strengths)
        occupied_seats == Occupied(dealt.players)
        button_position == IF \E k \in 1 .. Len(occupied_seats) :
                                occupied_seats[k] = s.button_position
                           THEN s.button_position
                           ELSE occupied_seats[1]
        button_idx == IndexOf(occupied_seats, button_position)
        h0 == [NoLocals EXCEPT
                 !.active_players = active_players,
                 !.occupied_seats = occupied_seats,
                 !.sb_idx = occupied_seats[(button_idx % Len(occupied_seats)) + 1],
                 !.bb_idx = occupied_seats[((button_idx + 1) % Len(occupied_seats)) + 1],
                 !.hero_idx = IF s.hero_seat # 0 THEN s.hero_seat - 1 ELSE 0,
                 !.deck = dealt.deck,
                 \* the stacks as the hand begins, kept to state what the hand does
                 \* to them
                 !.start_stacks = [i \in DOMAIN dealt.players |-> dealt.players[i].stack]]
        blinds == post_blinds(dealt.players, h0)
    IN [session |-> [s EXCEPT !.players = blinds.players,
                              !.button_position = button_position,
                              !.hand_number = @ + 1],
        h |-> blinds.h,
        r |-> round_entry(blinds.players, blinds.h, PREFLOP, blinds.current_level)]

\* lines 264-339: the hand is set up, the blinds are posted and the preflop round
\* is entered; strengths[i] is the table strength of the hole cards of seat i
start_hand(s, seated, strengths) ==
    LET active_players == get_active_players(seated)
        dealt == deal_hole_cards(seated, active_players, create_shuffled_deck, strengths)
        occupied_seats == Occupied(dealt.players)
        button_position == IF \E k \in 1 .. Len(occupied_seats) :
                                occupied_seats[k] = s.button_position
                           THEN s.button_position
                           ELSE occupied_seats[1]
        button_idx == IndexOf(occupied_seats, button_position)
        h0 == [NoLocals EXCEPT
                 !.active_players = active_players,
                 !.occupied_seats = occupied_seats,
                 !.sb_idx = occupied_seats[((button_idx + 1) % Len(occupied_seats)) + 1],
                 !.bb_idx = occupied_seats[((button_idx + 2) % Len(occupied_seats)) + 1],
                 !.hero_idx = IF s.hero_seat # 0 THEN s.hero_seat - 1 ELSE 0,
                 !.deck = dealt.deck,
                 \* the stacks as the hand begins, kept to state what the hand does
                 \* to them
                 !.start_stacks = [i \in DOMAIN dealt.players |-> dealt.players[i].stack]]
        blinds == post_blinds(dealt.players, h0)
    IN [session |-> [s EXCEPT !.players = blinds.players,
                              !.button_position = button_position,
                              !.hand_number = @ + 1],
        h |-> blinds.h,
        r |-> round_entry(blinds.players, blinds.h, PREFLOP, blinds.current_level)]

\* the draws of the table strengths of the hole cards, one per seated player
StrengthDrawsOf(seated, strengths) ==
    {f \in [DOMAIN seated -> strengths \cup {NoStrength}] :
       \A i \in DOMAIN seated : IF IsNone(seated[i]) THEN f[i] = NoStrength
                                 ELSE f[i] \in strengths}

StrengthDraws(seated) == StrengthDrawsOf(seated, HandStrengths)

\* _generate_single_hand up to line 339, the hole cards drawn with a table
\* strength out of hand_strengths
GenerateSingleHandOf(hand_strengths) ==
    /\ pc = "idle"
    /\ \E hero_stack \in (IF HeroNeedsStack(session) THEN HeroStacks ELSE {0}) :
       LET seated == seat_hero_and_remove_busted(session, hero_stack)
       IN IF Len(get_active_players(seated)) < 2
          THEN /\ session' = [session EXCEPT !.players = seated]
               /\ pc' = "hand_done"
               /\ UNCHANGED <<h, r>>
          ELSE \E strengths \in StrengthDrawsOf(seated, hand_strengths) :
               LET started == start_hand(session, seated, strengths)
               IN /\ session' = started.session
                  /\ h' = started.h
                  /\ r' = started.r
                  /\ pc' = RoundPc(started.r)
    /\ hand' = None
    /\ UNCHANGED <<gen, bot, call>>

GenerateSingleHand == GenerateSingleHandOf(HandStrengths)

(***************************************************************************)
(* _run_betting_round, the loop of lines 406-537                           *)
(***************************************************************************)
\* line 406 true: count += 1 and the pass walks list(to_act), ascending
PassBegin ==
    /\ pc = "while"
    /\ loop_continues(r)
    /\ r' = pass_begin(r)
    /\ pc' = "for"
    /\ UNCHANGED <<session, h, hand, gen, bot, call>>

\* lines 408-521: the next position of the pass, the bot's random draws out of
\* draws
PlayerActsOf(draws) ==
    /\ pc = "for"
    /\ r.pass_list # << >>
    /\ \E rnd \in draws :
       LET st == [players |-> session.players, h |-> h,
                  r |-> [r EXCEPT !.pass_list = Tail(@)]]
           res == for_body(st, Head(r.pass_list), rnd)
       IN /\ session' = [session EXCEPT !.players = res.st.players]
          /\ h' = res.st.h
          /\ r' = res.st.r
          /\ pc' = IF res.exit THEN "after_round"
                   ELSE IF res.st.r.pass_list = << >> THEN "while"
                   ELSE "for"
    /\ UNCHANGED <<hand, gen, bot, call>>

PlayerActs == PlayerActsOf(Rnd)

\* line 406 false, lines 523-537
RoundEnd ==
    /\ pc = "while"
    /\ ~loop_continues(r)
    /\ LET st == uncalled_bet_return([players |-> session.players, h |-> h, r |-> r])
       IN /\ h' = st.h
          /\ r' = st.r
    /\ pc' = "after_round"
    /\ UNCHANGED <<session, hand, gen, bot, call>>

(***************************************************************************)
(* _generate_single_hand, lines 340-380                                    *)
(***************************************************************************)
NextStreetOf(street) ==
    CASE street = PREFLOP -> FLOP
      [] street = FLOP -> TURN
      [] OTHER -> RIVER

\* the hand goes on to finalize: at most one player left, or the river is done
HandOver ==
    \/ Len(still_in(session.players, h.active_players)) <= 1
    \/ r.street = RIVER

\* lines 344-351, 357-364, 370-377: the next street is dealt and its round begins
DealStreet ==
    /\ pc = "after_round"
    /\ ~HandOver
    /\ LET street == NextStreetOf(r.street)
           reset == [i \in DOMAIN session.players |->
                       IF \E k \in 1 .. Len(h.active_players) : h.active_players[k] = i
                       THEN [session.players[i] EXCEPT !.invested_this_street = 0]
                       ELSE session.players[i]]
           d == deal_cards(IF street = FLOP THEN 3 ELSE 1, h.deck)
           board == h.board \o d.cards
           h1 == [h EXCEPT !.deck = d.deck, !.board = board,
                           !.streets_shown = Append(@, [street |-> street,
                                                        board_cards |-> board])]
           rr == round_entry(reset, h1, street, 0)
       IN /\ d.ok
          /\ session' = [session EXCEPT !.players = reset]
          /\ h' = h1
          /\ r' = rr
          /\ pc' = RoundPc(rr)
    /\ UNCHANGED <<hand, gen, bot, call>>

\* lines 342, 355, 368, 380: _finalize_hand
FinalizeHand ==
    /\ pc = "after_round"
    /\ HandOver
    /\ LET in == still_in(session.players, h.active_players)
       IN \E w \in 1 .. Len(in), rake \in RakeChoices(h.pot_shown) :
            LET f == finalize_hand(session.max_seats, session.button_position + 1,
                                   session.players, h, in[w], rake)
            IN /\ session' = [session EXCEPT !.players = f.players]
               /\ hand' = Some(f.hand)
    /\ pc' = "hand_done"
    /\ UNCHANGED <<h, r, gen, bot, call>>

Next ==
    \/ GenerateSingleHand
    \/ PassBegin
    \/ PlayerActs
    \/ RoundEnd
    \/ DealStreet
    \/ FinalizeHand

Spec == Init /\ [][Next]_vars

(***************************************************************************)
(* A table session: generate_hands plays session_length hands on one       *)
(* table, moves the button after each and lets players leave and join      *)
(* between the hands in the middle of the session.                         *)
(***************************************************************************)
\* hands of the session
SessionLength == 3

\* the table strengths and the bots' draws of the hands of the session
SessionStrengths == {90}
SessionRnd == {rnd \in Rnd : rnd.jit = 0 /\ rnd.coin}

SessionHand == GenerateSingleHandOf(SessionStrengths)

SessionPlayerActs == PlayerActsOf(SessionRnd)

\* initialize_table: the hero on a random seat, bots on some of the other seats,
\* the button on an occupied seat.  The program seats randint(3, max_seats - 1)
\* bots; the table of MaxSeats seats takes 1 .. MaxSeats - 1 of them.
InitSession ==
    /\ \E hero_seat \in 1 .. MaxSeats, stacks \in [SeatIdx(MaxSeats) -> StartStacks \cup {0}] :
          /\ stacks[hero_seat - 1] > 0
          /\ \E i \in SeatIdx(MaxSeats) : i # hero_seat - 1 /\ stacks[i] > 0
          /\ \E button \in {i \in SeatIdx(MaxSeats) : stacks[i] > 0} :
             LET t == SeatedTable(hero_seat, stacks, NamePool)
             IN session = [max_seats |-> MaxSeats,
                           players |-> t.players,
                           button_position |-> button,
                           hero_seat |-> hero_seat,
                           hand_number |-> 0,
                           available_names |-> t.available_names]
    /\ pc = "idle"
    /\ h = NoLocals
    /\ r = NoRound
    /\ hand = None
    /\ gen = [hand_in_session |-> 0, session_length |-> SessionLength]
    /\ bot = NoBot
    /\ call = NoCall

\* line 198: session.rotate_button() after the hand; the locals of
\* _generate_single_hand are gone
RotateButton ==
    /\ pc = "hand_done"
    /\ session' = rotate_button(session)
    /\ h' = NoLocals
    /\ r' = NoRound
    /\ pc' = "rotated"
    /\ UNCHANGED <<hand, gen, bot, call>>

\* line 199
churns(g) == 0 < g.hand_in_session /\ g.hand_in_session < g.session_length - 1

\* line 190: the next iteration of the for loop over the hands of the session
next_iteration(g) == [g EXCEPT !.hand_in_session = @ + 1]

\* the loop goes on to the next hand or is over
LoopPc(g) == IF g.hand_in_session < g.session_length THEN "idle" ELSE "session_done"

\* lines 199-200: session.handle_player_changes()
HandlePlayerChanges ==
    /\ pc = "rotated"
    /\ churns(gen)
    /\ \E leave \in BOOLEAN, join \in BOOLEAN, stack \in StartStacks,
          leaving_idx \in SeatIdx(session.max_seats), join_seat \in 1 .. session.max_seats :
          /\ leave => leaving_idx \in occupied_non_hero(session)
          /\ (join /\ empty_seats(session) # {}) => join_seat \in empty_seats(session)
          /\ session' = handle_player_changes(session, leave, leaving_idx, join, join_seat, stack)
    /\ gen' = next_iteration(gen)
    /\ pc' = LoopPc(gen')
    /\ UNCHANGED <<h, r, hand, bot, call>>

\* line 199 false: no churn after the first and after the last hand
NoPlayerChanges ==
    /\ pc = "rotated"
    /\ ~churns(gen)
    /\ gen' = next_iteration(gen)
    /\ pc' = LoopPc(gen')
    /\ UNCHANGED <<session, h, r, hand, bot, call>>

NextSession ==
    \/ SessionHand
    \/ PassBegin
    \/ SessionPlayerActs
    \/ RoundEnd
    \/ DealStreet
    \/ FinalizeHand
    \/ RotateButton
    \/ HandlePlayerChanges
    \/ NoPlayerChanges

SpecSession == InitSession /\ [][NextSession]_vars

(***************************************************************************)
(* A full table.  BigSeats players sit with the minimum buy-in of 4.00,    *)
(* the button on the first seat; the two blinds hold strong hole cards and *)
(* everybody else a medium hand.  The specification is the preflop round   *)
(* of that hand.                                                           *)
(***************************************************************************)
BigSeats == 21
\* round(random.uniform(4.0, 15.0), 2) at its low end
BigStack == 400

BigStrengths == [i \in SeatIdx(BigSeats) |-> IF i \in {1, 2} THEN 90 ELSE 55]

BigSession ==
    LET t == SeatedTable(1, [i \in SeatIdx(BigSeats) |-> BigStack], BigSeats - 1)
    IN [max_seats |-> BigSeats, players |-> t.players, button_position |-> 0,
        hero_seat |-> 1, hand_number |-> 0, available_names |-> t.available_names]

InitBig ==
    LET started == start_hand(BigSession,
                              seat_hero_and_remove_busted(BigSession, 0), BigStrengths)
    IN /\ session = started.session
       /\ h = started.h
       /\ r = started.r
       /\ pc = RoundPc(started.r)
       /\ hand = None
       /\ gen = OneHand
       /\ bot = NoBot
       /\ call = NoCall

NextBig ==
    \/ PassBegin
    \/ PlayerActs
    \/ RoundEnd

SpecBig == InitBig /\ [][NextBig]_vars

(***************************************************************************)
(* SandboxPokerBot.act on its own: one call on a game state and a legal    *)
(* set drawn from bounded sets, whatever engine would produce them.        *)
(***************************************************************************)
BotStreets == {PREFLOP, FLOP, RIVER}
BotStacks == {10, 100}
BotPots == {0, 40}
BotToCalls == {0, 3, 30}
BotPositions == {0, 2}
BotNumPlayers == {3}
\* <<state.hand_strength, table strength of state.hole_cards>>
BotStrengths == {<<NoStrength, NoStrength>>, <<NoStrength, 60>>, <<20, NoStrength>>,
                 <<55, NoStrength>>, <<90, NoStrength>>}

\* TableSession.__init__: no player seated yet
EmptySession ==
    [max_seats |-> MaxSeats, players |-> [i \in SeatIdx(MaxSeats) |-> NoPlayer],
     button_position |-> 0, hero_seat |-> 0, hand_number |-> 0,
     available_names |-> [k \in 1 .. NamePool |-> k + 1]]

InitBot ==
    /\ \E street \in BotStreets, stack \in BotStacks, pot \in BotPots,
          to_call \in BotToCalls, position_index \in BotPositions,
          num_players \in BotNumPlayers, strength \in BotStrengths,
          can_fold \in BOOLEAN, can_check \in BOOLEAN, can_call \in BOOLEAN,
          can_bet \in BOOLEAN, can_raise \in BOOLEAN, rnd \in Rnd :
          bot = [called |-> FALSE,
                 state |-> [street |-> street, position_index |-> position_index,
                            num_players |-> num_players, stack |-> stack, pot |-> pot,
                            to_call |-> to_call, big_blind |-> bb,
                            hand_strength |-> strength[1]],
                 csv_strength |-> strength[2],
                 legal |-> [can_fold |-> can_fold, can_check |-> can_check,
                            can_call |-> can_call, call_amount |-> to_call,
                            can_bet |-> can_bet, min_bet |-> bb, max_bet |-> stack,
                            can_raise |-> can_raise, min_raise |-> to_call + bb,
                            max_raise |-> stack],
                 rnd |-> rnd,
                 result |-> None]
    /\ session = EmptySession
    /\ pc = "bot"
    /\ h = NoLocals
    /\ r = NoRound
    /\ hand = None
    /\ gen = OneHand
    /\ call = NoCall

\* decision = bot.act(state, legal)
BotAct ==
    /\ pc = "bot"
    /\ ~bot.called
    /\ bot' = [bot EXCEPT !.called = TRUE,
                          !.result = Some(act(bot.state, bot.csv_strength, bot.legal,
                                              tightness, bot.rnd))]
    /\ UNCHANGED <<session, pc, h, r, hand, gen, call>>

NextBot == BotAct

SpecBot == InitBot /\ [][NextBot]_vars

(***************************************************************************)
(* _deal_cards on its own: one call on a supplied deck, whatever the deck  *)
(* holds (a card more than once too) and however many cards are asked for. *)
(***************************************************************************)
DealCardValues == 1 .. 3
MaxDeck == 3
MaxNum == 4

DealDecks == UNION {[1 .. n -> DealCardValues] : n \in 0 .. MaxDeck}

\* the session and the hand play no part in a call of a function on its own
Aside ==
    /\ session = EmptySession
    /\ h = NoLocals
    /\ r = NoRound
    /\ hand = None
    /\ gen = OneHand
    /\ bot = NoBot

InitDeal ==
    /\ \E deck \in DealDecks, num \in 0 .. MaxNum :
          call = [called |-> FALSE, deck |-> deck, num |-> num, result |-> None]
    /\ pc = "deal"
    /\ Aside

\* cards = self._deal_cards(num, deck): pc "raised" is the ValueError
DealCards ==
    /\ pc = "deal"
    /\ ~call.called
    /\ LET d == deal_cards(call.num, call.deck)
       IN /\ call' = [call EXCEPT !.called = TRUE, !.result = Some(d)]
          /\ pc' = IF d.ok THEN "dealt" ELSE "raised"
    /\ UNCHANGED <<session, h, r, hand, gen, bot>>

NextDeal == DealCards

SpecDeal == InitDeal /\ [][NextDeal]_vars

(***************************************************************************)
(* rotate_button on its own: one call on a table as it can stand between   *)
(* two hands, the button on any seat (the seat of a player who has left    *)
(* included).                                                              *)
(***************************************************************************)
InitRotate ==
    /\ \E hero_seat \in 1 .. MaxSeats, button \in SeatIdx(MaxSeats),
          stacks \in [SeatIdx(MaxSeats) -> StartStacks \cup {0}] :
          /\ stacks[hero_seat - 1] > 0
          /\ LET t == SeatedTable(hero_seat, stacks, NamePool)
             IN session = [max_seats |-> MaxSeats,
                           players |-> t.players,
                           button_position |-> button,
                           hero_seat |-> hero_seat,
                           hand_number |-> 0,
                           available_names |-> t.available_names]
    /\ pc = "rotate"
    /\ h = NoLocals
    /\ r = NoRound
    /\ hand = None
    /\ gen = OneHand
    /\ bot = NoBot
    /\ call = NoCall

\* session.rotate_button()
RotateOnce ==
    /\ pc = "rotate"
    /\ session' = rotate_button(session)
    /\ pc' = "rotated"
    /\ UNCHANGED <<h, r, hand, gen, bot, call>>

NextRotate == RotateOnce

SpecRotate == InitRotate /\ [][NextRotate]_vars

(***************************************************************************)
(* validate_hand on its own: two calls in a row on one record, as a batch  *)
(* check run twice over a file would make them.  The records are          *)
(* V0_JSON_HAND with one of its parts changed or left out.                 *)
(***************************************************************************)
\* a record without one of its keys ("" leaves the record whole)
Without(dict, key) == [k \in DOMAIN dict \ {key} |-> dict[k]]

\* the streets of a record: none, the flop, flop and turn, a flop of two cards, a
\* street without its board
CheckedStreets ==
    <<<< >>,
      <<[street |-> FLOP, board_cards |-> <<3, 4, 5>>]>>,
      <<[street |-> FLOP, board_cards |-> <<3, 4, 5>>],
        [street |-> TURN, board_cards |-> <<3, 4, 5, 6>>]>>,
      <<[street |-> FLOP, board_cards |-> <<3, 4>>]>>,
      <<[street |-> FLOP]>>>>

CheckedHoleCards == {<<1, 2>>, <<1>>, << >>}
CheckedRakes == {6, 7}
CheckedEnds == {PREFLOP, FLOP, TURN}

InitValidate ==
    /\ \E dropped \in DOMAIN V0_JSON_HAND \cup {""},
          dropped_meta \in {"", "ante"},
          n \in DOMAIN CheckedStreets,
          hole_cards \in CheckedHoleCards,
          rake \in CheckedRakes,
          ended \in CheckedEnds :
          LET whole == [V0_JSON_HAND EXCEPT
                          !.metadata = Without([@ EXCEPT !.hand_ended_on_street = ended],
                                               dropped_meta),
                          !.streets = CheckedStreets[n],
                          !.players[1].hole_cards = hole_cards,
                          !.outcome.rake = rake]
              record == Without(whole, dropped)
          IN call = [called |-> FALSE, hand |-> record, given |-> record,
                     first |-> None, second |-> None]
    /\ pc = "validate"
    /\ Aside

\* errors = validate_hand(hand, idx, source)
ValidateHand ==
    /\ pc = "validate"
    /\ LET res == validate_hand(call.hand)
       IN call' = [call EXCEPT !.called = TRUE, !.hand = res.hand,
                               !.first = Some([raised |-> res.raised,
                                               errors |-> res.errors])]
    /\ pc' = "validated"
    /\ UNCHANGED <<session, h, r, hand, gen, bot>>

\* the same call once more on the record as the first call left it
ValidateAgain ==
    /\ pc = "validated"
    /\ LET res == validate_hand(call.hand)
       IN call' = [call EXCEPT !.hand = res.hand,
                               !.second = Some([raised |-> res.raised,
                                                errors |-> res.errors])]
    /\ pc' = "validated_twice"
    /\ UNCHANGED <<session, h, r, hand, gen, bot>>

NextValidate ==
    \/ ValidateHand
    \/ ValidateAgain

SpecValidate == InitValidate /\ [][NextValidate]_vars

(***************************************************************************)
(* HandHistory.from_payload and to_payload, the label of a hand.  A string *)
(* is the sequence of its characters; a label of a payload is a value with *)
(* its Python type: [type |-> "str", chars |-> <<"b", "o", "t">>],         *)
(* [type |-> "bool", truth |-> TRUE], [type |-> "int", n |-> 2],           *)
(* [type |-> "float"], or [type |-> "none"] for no label.                  *)
(***************************************************************************)
Word(chars) == [type |-> "str", chars |-> chars]
NoLabel == [type |-> "none"]

human == <<"h", "u", "m", "a", "n">>
bot_word == <<"b", "o", "t">>
ai == <<"a", "i">>
robot == <<"r", "o", "b", "o", "t">>

\* the letters of the labels, lower and upper case
CasePairs ==
    {<<"a", "A">>, <<"b", "B">>, <<"h", "H">>, <<"i", "I">>, <<"m", "M">>,
     <<"n", "N">>, <<"o", "O">>, <<"r", "R">>, <<"t", "T">>, <<"u", "U">>}

\* str.lower
lower_char(c) ==
    IF \E p \in CasePairs : p[2] = c
    THEN (CHOOSE p \in CasePairs : p[2] = c)[1]
    ELSE c
lower(chars) == [k \in 1 .. Len(chars) |-> lower_char(chars[k])]

\* str.upper and str.capitalize, to write the labels of the payloads
upper_char(c) ==
    IF \E p \in CasePairs : p[1] = c
    THEN (CHOOSE p \in CasePairs : p[1] = c)[2]
    ELSE c
upper(chars) == [k \in 1 .. Len(chars) |-> upper_char(chars[k])]
capitalize(chars) ==
    [k \in 1 .. Len(chars) |-> IF k = 1 THEN upper_char(chars[k]) ELSE chars[k]]

RECURSIVE lstrip(_)
lstrip(chars) ==
    IF chars # << >> /\ Head(chars) = " " THEN lstrip(Tail(chars)) ELSE chars

RECURSIVE rstrip(_)
rstrip(chars) ==
    IF chars # << >> /\ chars[Len(chars)] = " "
    THEN rstrip(SubSeq(chars, 1, Len(chars) - 1))
    ELSE chars

\* str.strip
strip(chars) == rstrip(lstrip(chars))

\* from_payload that knows no label ai
label_flag_of_no_ai(label_raw) ==
    IF label_raw.type = "str"
    THEN LET lowered == lower(strip(label_raw.chars))
         IN IF lowered = human THEN Some(FALSE)
            ELSE IF lowered = bot_word THEN Some(TRUE)
            ELSE None
    ELSE IF label_raw.type = "bool" THEN Some(label_raw.truth)
    ELSE IF label_raw.type = "int" THEN Some(label_raw.n # 0)
    ELSE None

\* from_payload, lines 271-281: label_flag
label_flag_of(label_raw) ==
    IF label_raw.type = "str"
    THEN LET lowered == lower(strip(label_raw.chars))
         IN IF lowered = human THEN Some(FALSE)
            ELSE IF lowered \in {ai, bot_word} THEN Some(TRUE)
            ELSE None
    ELSE IF label_raw.type = "bool" THEN Some(label_raw.truth)
    ELSE IF label_raw.type = "int" THEN Some(label_raw.n # 0)
    ELSE None

\* HandHistory.from_payload: the label of the hand (the other parts of the hand are
\* parsed apart from it)
from_payload(payload) ==
    [label_flag |-> label_flag_of(Get(payload, "label", NoLabel))]

\* from_standard_json
from_standard_json(payload) == from_payload(payload)

\* HandHistory.to_payload, lines 300-301: the label of the payload
to_payload(history) ==
    IF history.label_flag.some
    THEN [label |-> Word(IF history.label_flag.v THEN bot_word ELSE human)]
    ELSE NoKeys

\* the labels of the payloads: the words in three cases, bare or padded, the truth
\* values, three integers, a float and no label
LabelWords == {human, bot_word, ai, robot, << >>}
Cased(chars) == {chars, capitalize(chars), upper(chars)}
Padded(chars) == {chars, <<" ">> \o chars, chars \o <<" ">>, <<" ">> \o chars \o <<" ">>}
LabelStrings == UNION {UNION {Padded(c) : c \in Cased(w)} : w \in LabelWords}
LabelInts == {0, 1, 2}
Labels ==
    {Word(chars) : chars \in LabelStrings}
    \cup {[type |-> "bool", truth |-> b] : b \in BOOLEAN}
    \cup {[type |-> "int", n |-> n] : n \in LabelInts}
    \cup {[type |-> "float"], NoLabel}

InitLabel ==
    /\ \E label \in Labels :
          call = [called |-> FALSE,
                  payload |-> IF label = NoLabel THEN NoKeys ELSE [label |-> label],
                  history |-> None, result |-> None]
    /\ pc = "parse"
    /\ Aside

\* hand = from_standard_json(payload)
FromStandardJson ==
    /\ pc = "parse"
    /\ call' = [call EXCEPT !.called = TRUE,
                            !.history = Some(from_standard_json(call.payload))]
    /\ pc' = "parsed"
    /\ UNCHANGED <<session, h, r, hand, gen, bot>>

\* payload = hand.to_payload()
ToPayload ==
    /\ pc = "parsed"
    /\ call' = [call EXCEPT !.result = Some(to_payload(call.history.v))]
    /\ pc' = "serialised"
    /\ UNCHANGED <<session, h, r, hand, gen, bot>>

NextLabel ==
    \/ FromStandardJson
    \/ ToPayload

SpecLabel == InitLabel /\ [][NextLabel]_vars

(***************************************************************************)
(* majority_quorum on its own: one call on a number of validators          *)
(***************************************************************************)
\* majority_quorum counting the subject's own vote too
majority_quorum_all(total_validators) ==
    LET n == Max(0, total_validators)
    IN (n \div 2) + (IF n > 0 THEN 1 ELSE 0)

\* majority_quorum
majority_quorum(total_validators) ==
    LET n == Max(0, total_validators)
        others == Max(0, n - 1)
    IN (others \div 2) + (IF others > 0 THEN 1 ELSE 0)

MaxValidators == 60
MaxNegative == 10

InitQuorum ==
    /\ \E n \in (0 - MaxNegative) .. MaxValidators :
          call = [called |-> FALSE, total_validators |-> n, result |-> None]
    /\ pc = "quorum"
    /\ Aside

\* q = majority_quorum(n_validators)
MajorityQuorum ==
    /\ pc = "quorum"
    /\ call' = [call EXCEPT !.called = TRUE,
                            !.result = Some(majority_quorum(call.total_validators))]
    /\ pc' = "quorum_done"
    /\ UNCHANGED <<session, h, r, hand, gen, bot>>

NextQuorum == MajorityQuorum

SpecQuorum == InitQuorum /\ [][NextQuorum]_vars

(***************************************************************************)
(* The validator's forward cycle: _run_forward_cycle fills the buffer      *)
(* validator._pending_batches from the provider and takes task_batch_size  *)
(* batches off it, under validator.lock.  Several cycles run at once; a    *)
(* cycle gives way only where it awaits, at the entry of the lock and      *)
(* after the lock is released.  Batches are numbered in the order the      *)
(* provider hands them out.  Between the entry and the exit of the lock    *)
(* one cycle holds the list, so the list and the cycle's reference to it   *)
(* are written together.                                                   *)
(***************************************************************************)
\* forward cycles that run at once
NumCycles == 2

\* batches the provider hands out in a run
MaxFetched == 4

\* forward cycles started in a run
MaxForwards == 4

\* values of validator.task_batch_size: 0 .. MaxTaskBatchSize
MaxTaskBatchSize == 3

\* line 169: the upper end of n
BatchSizeCap == 200

Cycles == 1 .. NumCycles

\* line 169: n = max(1, min(200, n))
batch_size(raw_n) == Max(1, Min(BatchSizeCap, raw_n))

\* line 180
need_of(n, pending) == Max(0, n - Len(pending))

\* the lock lets every cycle in
lock_free_always(lock) == TRUE

\* line 176, async with lock: the lock is taken when no cycle holds it
lock_free(lock) == lock = 0

\* the locals of a cycle; at is where it stands
NoCycle == [at |-> "idle", n |-> 0, pending |-> << >>, need |-> 0,
            new_batches |-> << >>, buffered |-> 0, batches |-> << >>]

\* the validator after construction: no _pending_batches yet (getattr gives []),
\* the lock free, no forward run; fetched counts the batches the provider handed
\* out, handed lists the batches the cycles took, in the order they took them
InitForward ==
    /\ call = [called |-> FALSE, lock |-> 0, pending_batches |-> << >>,
               forward_count |-> 0, fetched |-> 0, handed |-> << >>,
               cycles |-> [c \in Cycles |-> NoCycle]]
    /\ pc = "forward"
    /\ Aside

\* lines 162-169: the cycle counts itself and reads the batch size
ForwardStart ==
    /\ pc = "forward"
    /\ \E c \in Cycles, raw_n \in 0 .. MaxTaskBatchSize :
          /\ call.cycles[c].at = "idle"
          /\ call.forward_count < MaxForwards
          /\ call' = [call EXCEPT !.called = TRUE,
                                  !.forward_count = @ + 1,
                                  !.cycles[c] = [NoCycle EXCEPT !.at = "lock",
                                                                !.n = batch_size(raw_n)]]
    /\ UNCHANGED <<session, pc, h, r, hand, gen, bot>>

\* lines 176-179: the cycle enters the lock and reads the buffer
LockAcquire ==
    /\ pc = "forward"
    /\ \E c \in Cycles :
          /\ call.cycles[c].at = "lock"
          /\ lock_free(call.lock)
          /\ call' = [call EXCEPT !.lock = c,
                                  !.cycles[c].pending = call.pending_batches,
                                  !.cycles[c].at = "fill"]
    /\ UNCHANGED <<session, pc, h, r, hand, gen, bot>>

\* lines 180-187: the provider is asked for need batches and answers with at most
\* that many (StaticProvider.fetch_hand_batch returns self._batches[:limit]); an
\* empty answer leaves the list as it is
FillBuffer ==
    /\ pc = "forward"
    /\ \E c \in Cycles :
          LET my == call.cycles[c]
              need == need_of(my.n, my.pending)
          IN /\ my.at = "fill"
             /\ \E got \in 0 .. Min(need, MaxFetched - call.fetched) :
                   LET new_batches == [k \in 1 .. got |-> call.fetched + k]
                       pending == my.pending \o new_batches
                   IN call' = [call EXCEPT
                                 !.fetched = @ + got,
                                 !.pending_batches = IF need > 0 THEN pending ELSE @,
                                 !.cycles[c].need = need,
                                 !.cycles[c].new_batches = new_batches,
                                 !.cycles[c].pending = pending,
                                 !.cycles[c].at = "take"]
    /\ UNCHANGED <<session, pc, h, r, hand, gen, bot>>

\* lines 189-192: with n batches buffered the first n are taken off the buffer
TakeBatches ==
    /\ pc = "forward"
    /\ \E c \in Cycles :
          LET my == call.cycles[c]
              buffered == Len(my.pending)
              takes == buffered >= my.n
              batches == IF takes THEN SubSeq(my.pending, 1, my.n) ELSE << >>
          IN /\ my.at = "take"
             /\ call' = [call EXCEPT
                           !.pending_batches =
                               IF takes THEN SubSeq(my.pending, my.n + 1, buffered) ELSE @,
                           !.handed = @ \o batches,
                           !.cycles[c].buffered = buffered,
                           !.cycles[c].batches = batches,
                           !.cycles[c].at = "release"]
    /\ UNCHANGED <<session, pc, h, r, hand, gen, bot>>

\* the end of the async with block of line 176
LockRelease ==
    /\ pc = "forward"
    /\ \E c \in Cycles :
          /\ call.cycles[c].at = "release"
          /\ call' = [call EXCEPT !.lock = 0, !.cycles[c].at = "released"]
    /\ UNCHANGED <<session, pc, h, r, hand, gen, bot>>

\* lines 210-213 and after: without batches the cycle sleeps and returns, with
\* batches it goes on to query the miners; either way it is over
ForwardReturn ==
    /\ pc = "forward"
    /\ \E c \in Cycles :
          /\ call.cycles[c].at = "released"
          /\ call' = [call EXCEPT !.cycles[c] = NoCycle]
    /\ UNCHANGED <<session, pc, h, r, hand, gen, bot>>

NextForward ==
    \/ ForwardStart
    \/ LockAcquire
    \/ FillBuffer
    \/ TakeBatches
    \/ LockRelease
    \/ ForwardReturn

SpecForward == InitForward /\ [][NextForward]_vars

(***************************************************************************)
(* Properties                                                              *)
(***************************************************************************)
Abs(x) == IF x < 0 THEN 0 - x ELSE x

Last(seq) == seq[Len(seq)]

RECURSIVE SumOver(_)
SumOver(f) ==
    IF DOMAIN f = {} THEN 0
    ELSE LET u == CHOOSE x \in DOMAIN f : TRUE
         IN f[u] + SumOver([x \in DOMAIN f \ {u} |-> f[x]])

\* the indices of the log entries of a given type
Logged_of(actions, types) == {k \in 1 .. Len(actions) : actions[k].action_type \in types}

\* the players of the hand in progress that have not folded
InHand == NotFolded(session.players, h.active_players)

\* the uid of the player sitting at a seat of the raw (not yet canonicalized) log
UidAtSeat(seat) == session.players[seat - 1].uid

\* C1: the payouts of a produced hand plus its rake are its total pot (to within a
\* cent); the rake is the pot times rake_rate rounded to the cent, and the single
\* winner is paid the pot minus the rake.
C1_PayoutsPlusRakeIsPot ==
    hand.some =>
        LET o == hand.v.outcome
        IN /\ Abs(SumOver(o.payouts) + o.rake - o.total_pot) <= 1
           /\ 2 * Abs(100 * o.rake - o.total_pot * rake_rate) <= 100
           /\ Len(o.winners) = 1
           /\ DOMAIN o.payouts = {o.winners[1]}
           /\ o.payouts[o.winners[1]] = o.total_pot - o.rake

C1_Witness ==
    /\ hand.some
    /\ hand.v.outcome.rake >= 2
    /\ hand.v.outcome.payouts[hand.v.outcome.winners[1]] > 0

\* the signed delta of a log entry, from its type and its recorded amount
DeltaOf(a) ==
    CASE a.action_type \in {"small_blind", "big_blind", "call", "bet", "raise"} -> a.amount
      [] a.action_type \in {"fold", "check"} -> 0
      [] a.action_type = "uncalled_bet_return" -> 0 - a.amount

DeltasAddUp(actions) ==
    \A k \in 1 .. Len(actions) :
        actions[k].pot_after = actions[k].pot_before + DeltaOf(actions[k])

\* C2: every logged action has pot_after = pot_before + delta, delta being the
\* recorded amount for blinds, calls, bets and raises, 0 for folds and checks, and
\* minus the recorded amount for an uncalled_bet_return.
C2_PotAfterIsPotBeforePlusDelta ==
    /\ DeltasAddUp(h.actions)
    /\ hand.some => DeltasAddUp(hand.v.actions)

C2_Witness ==
    /\ hand.some
    /\ Logged_of(hand.v.actions, {"raise"}) # {}
    /\ Logged_of(hand.v.actions, {"uncalled_bet_return"}) # {}
    /\ Logged_of(hand.v.actions, {"call"}) # {}

NeverDecreases(actions) ==
    \A k \in 1 .. Len(actions) :
        \/ actions[k].action_type = "uncalled_bet_return"
        \/ /\ actions[k].pot_after >= actions[k].pot_before
           /\ k > 1 => /\ actions[k].pot_before >= actions[k - 1].pot_after
                       /\ actions[k].pot_after >= actions[k - 1].pot_after

\* C3: along the action log of a hand the displayed pot never decreases from one
\* action to the next, except at an uncalled_bet_return.
C3_PotNeverDecreases ==
    /\ NeverDecreases(h.actions)
    /\ hand.some => NeverDecreases(hand.v.actions)

C3_Witness ==
    /\ hand.some
    /\ \E k \in 2 .. Len(hand.v.actions) :
          /\ hand.v.actions[k].action_type = "uncalled_bet_return"
          /\ hand.v.actions[k].pot_after < hand.v.actions[k - 1].pot_after
          /\ hand.v.actions[k - 1].pot_after > hand.v.actions[k - 1].pot_before


\* the decisions of the players (not the blinds, not the returns) logged on a street
DecisionsOnStreet(actions, street) ==
    Cardinality({k \in Logged_of(actions, ActionType) : actions[k].street = street})

PassesBounded ==
    /\ r.count <= max_actions
    /\ Len(r.pass_list) <= Len(r.action_order)
    /\ DecisionsOnStreet(h.actions, r.street) <= r.count * Len(r.action_order)
    /\ pc = "for" =>
          DecisionsOnStreet(h.actions, r.street) + Len(r.pass_list)
              <= r.count * Len(r.action_order)

FlagOf(legal, action) ==
    CASE action = FOLD -> legal.can_fold
      [] action = CHECK -> legal.can_check
      [] action = CALL -> legal.can_call
      [] action = BET -> legal.can_bet
      [] action = RAISE -> legal.can_raise

AnyFlag(legal) ==
    legal.can_fold \/ legal.can_check \/ legal.can_call \/ legal.can_bet \/ legal.can_raise

Playing == pc \in {"while", "for", "after_round"}

\* the outcome names the player at index idx of the table as the one winner by
\* fold or at a showdown, paid the pot less the rake
PaysOnly(o, idx) ==
    /\ o.winners = <<session.players[idx].uid>>
    /\ DOMAIN o.payouts = {session.players[idx].uid}
    /\ o.payouts[session.players[idx].uid] = o.total_pot - o.rake

\* C6: once all players but one have folded the hand ends at once: the next step
\* is its finalization, with no further decision logged and no further street dealt,
\* and the outcome is a win by fold (no showdown) of the one player who has not
\* folded, paid total_pot minus rake.
C6_FoldEndsHand ==
    [][(Playing /\ Cardinality(InHand) = 1) =>
          /\ pc = "after_round"
          /\ pc' = "hand_done"
          /\ hand'.some
          /\ Len(hand'.v.actions) = Len(h.actions)
          /\ hand'.v.streets = h.streets_shown
          /\ hand'.v.outcome.result_reason = "fold"
          /\ ~hand'.v.outcome.showdown
          /\ \A k \in InHand : PaysOnly(hand'.v.outcome, h.active_players[k])]_vars

C6_Witness ==
    /\ pc = "hand_done"
    /\ hand.some
    /\ hand.v.outcome.result_reason = "fold"
    /\ Cardinality(InHand) = 1
    /\ Len(h.active_players) = 3
    /\ h.streets_shown # << >>

\* C7: with two or more players not folded when the betting of the river is over,
\* the outcome is a showdown with exactly one winner, one of the players who have
\* not folded, paid total_pot minus rake.
C7_ShowdownOutcome ==
    (pc = "hand_done" /\ hand.some /\ r.street = RIVER /\ Cardinality(InHand) >= 2) =>
        /\ hand.v.outcome.result_reason = "showdown"
        /\ hand.v.outcome.showdown
        /\ Len(hand.v.outcome.winners) = 1
        /\ \E k \in InHand : PaysOnly(hand.v.outcome, h.active_players[k])

C7_Witness ==
    /\ pc = "hand_done"
    /\ hand.some
    /\ r.street = RIVER
    /\ Cardinality(InHand) = 2
    /\ Len(h.active_players) = 3
    /\ hand.v.outcome.showdown

\* the log ends with a bet (or a raise, which is how a bet over the blinds is
\* logged) at k that every other player left in the hand answered with a fold
BetFoldedOut(actions, k) ==
    /\ actions[k].action_type \in {"bet", "raise"}
    /\ k < Len(actions)
    /\ actions[k + 1].action_type = "fold"
    /\ \A j \in (k + 1) .. Len(actions) :
          actions[j].action_type \in {"fold", "uncalled_bet_return"}
    /\ Cardinality(InHand) = 1

\* C8: when a player bets (or raises by) X and every other player left then folds, an
\* uncalled_bet_return of X for the bettor's seat is logged right after the last
\* fold and takes X off the displayed pot, the round is over, and the bettor wins
\* by fold.
C8_UncalledBetReturned ==
    \A k \in 1 .. Len(h.actions) :
        BetFoldedOut(h.actions, k) =>
            LET n == Len(h.actions)
                ret == h.actions[n]
            IN /\ n >= k + 2
               /\ ret.action_type = "uncalled_bet_return"
               /\ h.actions[n - 1].action_type = "fold"
               /\ Logged_of(h.actions, {"uncalled_bet_return"}) = {n}
               /\ ret.actor_seat = h.actions[k].actor_seat
               /\ ret.amount = h.actions[k].amount
               /\ ret.pot_before = h.actions[n - 1].pot_after
               /\ ret.pot_after = ret.pot_before - h.actions[k].amount
               /\ h.pot_shown = ret.pot_after
               /\ pc \in {"after_round", "hand_done"}
               /\ pc = "hand_done" =>
                     /\ hand.some
                     /\ hand.v.outcome.result_reason = "fold"
                     /\ hand.v.outcome.winners = <<UidAtSeat(ret.actor_seat)>>

C8_Witness ==
    /\ pc = "hand_done"
    /\ hand.some
    /\ Len(h.active_players) = 3
    /\ \E k \in 1 .. Len(h.actions) :
          /\ BetFoldedOut(h.actions, k)
          /\ h.actions[k].action_type = "bet"
          /\ Len(h.actions) = k + 3

\* C9 as stated: when an uncalled_bet_return is logged, the stack of the player it
\* names grows by the amount taken back out of the pot.
C9_ReturnRefundsStack ==
    [][(Len(h'.actions) > Len(h.actions)
          /\ Last(h'.actions).action_type = "uncalled_bet_return") =>
          LET ret == Last(h'.actions)
              idx == ret.actor_seat - 1
          IN session'.players[idx].stack
                 = session.players[idx].stack + (ret.pot_before - ret.pot_after)]_vars

\* C10 as stated: without an uncalled_bet_return in the log the displayed and the
\* true pot are equal, and they are equal when the hand has been finalized.
C10_PotsAgree ==
    /\ Logged_of(h.actions, {"uncalled_bet_return"}) = {} => h.pot_shown = h.pot_true
    /\ hand.some => h.pot_shown = h.pot_true

\* the occupied seats in clockwise order, starting after seat index idx
ClockwiseAfter(occ, idx) ==
    LET k == IndexOf(occ, idx)
    IN SubSeq(occ, k + 2, Len(occ)) \o SubSeq(occ, 1, k + 1)

\* seat index idx has a decision of the street in the log
ActedOn(actions, street, idx) ==
    \E k \in 1 .. Len(actions) :
       /\ actions[k].street = street
       /\ actions[k].actor_seat = idx + 1
       /\ actions[k].action_type \in {"fold", "check", "call", "bet", "raise"}

\* who is due in the first pass of a round that starts after seat index idx: the
\* first seat clockwise after idx that has not folded, holds chips and has
\* not acted on the street
DueAfter(idx) ==
    LET due == SelectSeq(ClockwiseAfter(h.occupied_seats, idx),
                         LAMBDA i : /\ ~session.players[i].folded
                                    /\ session.players[i].stack > 0
                                    /\ ~ActedOn(h.actions, r.street, i))
    IN IF due = << >> THEN None ELSE Some(due[1])

\* a step of the first pass of the round that logs a decision
FirstPassDecision ==
    /\ pc = "for"
    /\ r.count = 1
    /\ Len(h'.actions) > Len(h.actions)

\* the seat index of the decision logged by the step
Decider == h'.actions[Len(h.actions) + 1].actor_seat - 1

\* C11: on the flop, the turn and the river the first pass of the round starts
\* with the first player clockwise after the button who has not folded and
\* holds chips, and goes on clockwise from there.
C11_PostflopFromButton ==
    [][(FirstPassDecision /\ r.street # PREFLOP)
         => DueAfter(session.button_position) = Some(Decider)]_vars

\* C12: preflop the first pass of the round starts with the first occupied seat
\* clockwise after the big blind and goes on clockwise (seats that folded or
\* hold no chips are passed over); the big blind, when it acts in the first
\* pass, is the last of the pass.
C12_PreflopFromBigBlind ==
    [][(FirstPassDecision /\ r.street = PREFLOP)
         => /\ DueAfter(h.bb_idx) = Some(Decider)
            /\ Decider = h.bb_idx => r'.pass_list = << >>]_vars

\* three players, the big blind not on the highest seat: the seat after the big
\* blind, the small blind and the big blind have acted in that order in the
\* first pass
C12_Witness ==
    /\ pc = "while"
    /\ r.street = PREFLOP
    /\ r.count = 1
    /\ Len(h.occupied_seats) = 3
    /\ h.bb_idx # 2
    /\ Len(h.actions) = 5
    /\ LET cw == ClockwiseAfter(h.occupied_seats, h.bb_idx)
       IN /\ \A k \in 1 .. 3 : h.actions[2 + k].actor_seat = cw[k] + 1
          /\ cw[3] = h.bb_idx
          /\ h.actions[3].action_type = "call"

\* a hand has been set up and its locals are still there
HandSetUp == h.actions # << >>

\* the bots that went bust and were taken off the table: their names are
\* neither seated nor back in the pool
BustedOut ==
    NamePool - Len(session.available_names) - Cardinality(occupied_non_hero(session))

\* C13: in every hand of a session the button is on an occupied seat and the
\* first two entries of the log are the small blind of the first occupied seat
\* clockwise from the button and the big blind of the second, two distinct
\* players, whatever hands, button moves, leaves, joins and bust removals
\* came before.
C13_ButtonAndBlinds ==
    HandSetUp =>
       LET occ == Occupied(session.players)
           cw == ClockwiseAfter(occ, session.button_position)
       IN /\ \E k \in 1 .. Len(occ) : occ[k] = session.button_position
          /\ Len(h.actions) >= 2
          /\ h.actions[1].action_type = "small_blind"
          /\ h.actions[1].actor_seat = cw[1] + 1
          /\ h.actions[2].action_type = "big_blind"
          /\ h.actions[2].actor_seat = cw[2] + 1
          /\ cw[1] # cw[2]
          /\ session.players[cw[1]].uid # session.players[cw[2]].uid

\* the third hand of a session is set up on a table that a bot has left bust,
\* with a seat empty between the players
C13_Witness ==
    /\ gen.hand_in_session = 2
    /\ HandSetUp
    /\ BustedOut > 0
    /\ Occupied(session.players) = <<0, 2>>
    /\ h.actions[2].action_type = "big_blind"

\* the player at seat index idx has decided on the street of the round and no
\* other player has bet or raised on it since
ActedSinceLastRaise(idx) ==
    \E k \in 1 .. Len(h.actions) :
       /\ h.actions[k].street = r.street
       /\ h.actions[k].actor_seat = idx + 1
       /\ h.actions[k].action_type \in {"fold", "check", "call", "bet", "raise"}
       /\ \A j \in (k + 1) .. Len(h.actions) :
             h.actions[j].action_type \in {"bet", "raise"}
                => h.actions[j].actor_seat = idx + 1

\* the seat indexes of the players of the hand that have not folded
StillIn == {h.active_players[k] : k \in InHand}

\* every player still in with chips has acted since the last bet or raise and
\* has matched the bet level of the round
AllActedAndMatched ==
    \A idx \in StillIn :
       session.players[idx].stack > 0
          => /\ ActedSinceLastRaise(idx)
             /\ session.players[idx].invested_this_street = r.current_level

\* a call of _run_betting_round has returned with two or more players still in
\* and its loop never reached the cap
RoundEnded ==
    /\ pc = "after_round"
    /\ Cardinality(InHand) >= 2
    /\ r.count < max_actions

\* C14: when a betting round ends with two or more players still in and below the
\* cap, every one of them who holds chips has acted since the last bet or raise
\* and has invested_this_street equal to the bet level.
C14_AllActedAndMatched == RoundEnded => AllActedAndMatched

\* the same for the rounds whose loop ran
C14_LoopEndsMatched == (RoundEnded /\ r.enter) => AllActedAndMatched

\* entry j of the log is the bet or raise that a return logged at k gives back:
\* the last bet or raise of the street before k
ReturnedBet(actions, j, k) ==
    /\ j < k
    /\ actions[j].action_type \in {"bet", "raise"}
    /\ actions[j].street = actions[k].street
    /\ \A i \in (j + 1) .. (k - 1) : actions[i].action_type \notin {"bet", "raise"}

\* C15: a call clears the last aggressor: no uncalled_bet_return is logged for a
\* bet or raise that a player has called, whoever folds afterwards.
C15_CalledBetNotReturned ==
    \A k \in Logged_of(h.actions, {"uncalled_bet_return"}) :
       \A j \in 1 .. Len(h.actions) :
          ReturnedBet(h.actions, j, k)
             => \A c \in (j + 1) .. (k - 1) : h.actions[c].action_type # "call"

\* a round has ended in which a bet or raise was called and a third player then
\* folded, and nothing was returned
C15_Witness ==
    /\ pc = "after_round"
    /\ \E j, c, f \in 1 .. Len(h.actions) :
          /\ j < c /\ c < f
          /\ h.actions[j].action_type \in {"bet", "raise"}
          /\ h.actions[c].action_type = "call"
          /\ h.actions[f].action_type = "fold"
          /\ \A i \in {j, c, f} : h.actions[i].street = r.street
          /\ \A i \in (j + 1) .. Len(h.actions) :
                h.actions[i].action_type \notin {"bet", "raise"}
    /\ Last(h.actions).action_type # "uncalled_bet_return"

\* C16: no player's stack is ever negative, in a hand and between the hands of a
\* session: blinds, calls, bets and raises take no more than the stack holds.
C16_StacksNotNegative ==
    \A i \in DOMAIN session.players :
       ~IsNone(session.players[i]) => session.players[i].stack >= 0

\* a raise has just taken the whole stack of the player who made it
C16_Witness ==
    /\ Playing
    /\ Last(h.actions).action_type = "raise"
    /\ session.players[Last(h.actions).actor_seat - 1].stack = 0

\* C17: the button of every produced hand record is on seat 1, wherever the
\* button stood at the table and whichever seats were empty.
C17_ButtonSeatOne == hand.some => hand.v.metadata.button_seat = 1

\* a hand was produced with the button on the table's last seat and an empty seat
\* before it
C17_Witness ==
    /\ hand.some
    /\ session.button_position = MaxSeats - 1
    /\ \E i \in SeatIdx(MaxSeats) : IsNone(session.players[i])
    /\ Len(hand.v.players) = 2

\* C18: the seats of the players of a produced hand record are exactly 1..k for
\* its k players, no gap and no seat twice, whatever seats were empty at the
\* table.
C18_SeatsContiguous ==
    hand.some =>
       {hand.v.players[k].seat : k \in 1 .. Len(hand.v.players)} = 1 .. Len(hand.v.players)

\* a hand was produced at a table whose first seat was empty and whose button
\* was not on the first occupied seat
C18_Witness ==
    /\ hand.some
    /\ IsNone(session.players[0])
    /\ session.button_position = 2
    /\ Len(hand.v.players) = 2
    /\ hand.v.players[2].seat = 2

\* C19: hand_ended_on_street of every produced hand record is the street of the
\* length of its last board (preflop when no street was dealt, flop for 3
\* cards, turn for 4, river for 5), and every street of the record has a
\* board of the length of its name.
C19_EndedStreetMatchesBoard ==
    hand.some =>
       LET streets == hand.v.streets
           ended == hand.v.metadata.hand_ended_on_street
       IN /\ ended = hand_ended_from_board(streets)
          /\ streets = << >> => ended = PREFLOP
          /\ streets # << >> =>
                /\ Len(Last(streets).board_cards) \in {3, 4, 5}
                /\ ended = Last(streets).street
          /\ \A k \in 1 .. Len(streets) : board_sane(streets[k])
          /\ \A k \in 1 .. Len(streets) : streets[k].street \in {FLOP, TURN, RIVER}

\* a hand that ended with a fold on the turn was produced
C19_Witness ==
    /\ hand.some
    /\ hand.v.metadata.hand_ended_on_street = TURN
    /\ Len(hand.v.streets) = 2
    /\ Len(hand.v.streets[2].board_cards) = 4
    /\ hand.v.outcome.result_reason = "fold"

\* the cards dealt in the hand, one after the other: the hole cards of its
\* players, then the board
RECURSIVE HoleCardsOf(_)
HoleCardsOf(active_players) ==
    IF active_players = << >> THEN << >>
    ELSE session.players[Head(active_players)].hole_cards \o HoleCardsOf(Tail(active_players))

Dealt == HoleCardsOf(h.active_players) \o h.board

\* C20: within a hand the hole cards of all players and the board cards of flop,
\* turn and river are pairwise distinct cards of the one 52-card deck (and none
\* of them is still in the deck).
C20_CardsDistinct ==
    HandSetUp =>
       /\ Len(Dealt) = 2 * Len(h.active_players) + Len(h.board)
       /\ \A a, b \in 1 .. Len(Dealt) : a # b => Dealt[a] # Dealt[b]
       /\ \A a \in 1 .. Len(Dealt) : Dealt[a] \in 1 .. DeckSize
       /\ \A a \in 1 .. Len(Dealt), d \in 1 .. Len(h.deck) : Dealt[a] # h.deck[d]
       /\ Len(Dealt) + Len(h.deck) = DeckSize

\* every seat of the table is in the hand and the river has been dealt
C20_Witness ==
    /\ HandSetUp
    /\ Len(h.active_players) = MaxSeats
    /\ Len(h.board) = 5
    /\ r.street = RIVER

\* a sequence back to front
Reverse(seq) == [k \in 1 .. Len(seq) |-> seq[Len(seq) - k + 1]]

\* C21: a deal of n cards from a supplied deck takes exactly n cards off the deck
\* and returns those same cards (nothing is drawn twice, nothing is drawn
\* that stays in the deck); when n exceeds the cards left the deal fails and
\* the deck is as it was.
C21_DealRemovesOrFails ==
    call.called =>
       LET d == call.result.v
       IN IF call.num > Len(call.deck)
          THEN /\ ~d.ok
               /\ pc = "raised"
               /\ d.deck = call.deck
          ELSE /\ d.ok
               /\ pc = "dealt"
               /\ Len(d.cards) = call.num
               /\ Len(d.deck) = Len(call.deck) - call.num
               /\ call.deck = d.deck \o Reverse(d.cards)

\* a deal of three cards off a deck of two has failed
C21_Witness ==
    /\ call.called
    /\ pc = "raised"
    /\ call.num = 3
    /\ Len(call.deck) = 2
    /\ ~call.result.v.ok

\* the seat indexes that are seated once the hero is in place and the busted
\* bots are off the table
SeatedForHand(s) ==
    {i \in DOMAIN s.players :
       \/ i = (IF s.hero_seat # 0 THEN s.hero_seat - 1 ELSE 0)
       \/ ~IsNone(s.players[i]) /\ s.players[i].stack > 0}

\* the step is a call of _generate_single_hand
HandCalled == pc = "idle" /\ pc' # "idle"

\* the step returns from _generate_single_hand after a hand was played
HandReturned == pc = "after_round" /\ pc' = "hand_done"

\* C22: _generate_single_hand returns None exactly when fewer than 2 players are
\* seated after the busted bots were removed; it then deals no card, posts no
\* blind, logs no action and leaves hand_number alone.  With 2 or more
\* seated the hand is set up and what is returned in the end is a record.
C22_NoHandIffUnderTwo ==
    [][/\ HandCalled =>
            IF Cardinality(SeatedForHand(session)) < 2
            THEN /\ pc' = "hand_done"
                 /\ hand' = None
                 /\ h'.actions = << >>
                 /\ h'.deck = << >>
                 /\ h'.pot_true = 0
                 /\ session'.hand_number = session.hand_number
                 /\ \A i \in DOMAIN session.players :
                       ~IsNone(session'.players[i])
                          => session'.players[i].hole_cards =
                                (IF IsNone(session.players[i]) THEN << >>
                                 ELSE session.players[i].hole_cards)
            ELSE /\ pc' \in {"while", "after_round"}
                 /\ session'.hand_number = session.hand_number + 1
                 /\ Len(h'.actions) = 2
                 /\ Len(h'.deck) = DeckSize - 2 * Cardinality(SeatedForHand(session))
       /\ HandReturned => hand'.some]_vars

\* the third call of a session found the hero alone at the table, the bots
\* gone bust, and returned no hand
C22_Witness ==
    /\ pc = "hand_done"
    /\ hand = None
    /\ gen.hand_in_session = 2
    /\ session.hand_number = 2
    /\ Len(Occupied(session.players)) = 1
    /\ BustedOut > 0

\* the hero's seat holds the hero
HeroSeated ==
    /\ session.hero_seat \in 1 .. session.max_seats
    /\ ~IsNone(session.players[session.hero_seat - 1])
    /\ session.players[session.hero_seat - 1].uid = HERO_UID
    /\ session.players[session.hero_seat - 1].seat = session.hero_seat

\* what the hero held when the hand that is set up began
HeroStartStack ==
    session.players[session.hero_seat - 1].stack
       + session.players[session.hero_seat - 1].total_invested

\* C23: from initialize_table on, through hands, button moves, leaves, joins and
\* bust removals, the hero's seat holds the hero, and the hero starts every
\* hand with stack > 0 (a depleted hero is topped up).
C23_HeroStaysAndHasChips ==
    [][/\ HeroSeated
       /\ HeroSeated'
       /\ (HandCalled /\ pc' # "hand_done") => HeroStartStack' > 0]_vars

\* a later hand of the session was set up after the hero had gone bust: the hero
\* began it with the top-up
C23_Witness ==
    /\ gen.hand_in_session >= 1
    /\ HandSetUp
    /\ Len(h.actions) = 2
    /\ HeroStartStack \in HeroStacks
    /\ HeroSeated

\* the first occupied seat index after seat index b, going round the table
NextOccupiedAfter(players, b) ==
    LET n == Len(Occupied(players)) + Cardinality({i \in DOMAIN players : IsNone(players[i])})
        d == CHOOSE k \in 1 .. n :
                /\ ~IsNone(players[(b + k) % n])
                /\ \A j \in 1 .. (k - 1) : IsNone(players[(b + j) % n])
    IN (b + d) % n

\* a call of rotate_button moves the button to the next occupied seat after it
\* and changes nothing else
RotatesToNext ==
    session' = [session EXCEPT !.button_position =
                   NextOccupiedAfter(session.players, session.button_position)]

C24_RotateInSession == [][(pc = "hand_done" /\ pc' = "rotated") => RotatesToNext]_vars

\* the decision of the call of act
Decision == bot.result.v.decision

\* C25: a legal set with can_bet = false never gets a bet from act, on any street,
\* for any hand strength and any draw.
C25_NoBetWhenCannotBet ==
    (bot.called /\ ~bot.legal.can_bet) => Decision.action # BET


\* a strong hand that is checked to, cannot bet, and checks
C25_Witness ==
    /\ bot.called
    /\ bot.legal.can_check
    /\ ~bot.legal.can_bet
    /\ bot.state.to_call = 0
    /\ bot.state.hand_strength = 90
    /\ bot.state.street # PREFLOP
    /\ Decision.action = CHECK


\* the decision's amount lies within the legal set's limits for its action
AmountWithinLimits ==
    /\ Decision.action = BET
         => (bot.legal.min_bet <= Decision.amount /\ Decision.amount <= bot.legal.max_bet)
    /\ Decision.action = RAISE
         => (bot.legal.min_raise <= Decision.amount
             /\ Decision.amount <= bot.legal.max_raise)

C27_SnapshotUnchanged == bot.called => bot.result.v.state = bot.state


\* C28: every hand record the generator produces passes validate_hand with an empty
\* violation list: its keys at the top level, in metadata, in outcome, in each player,
\* each street and each action are those of V0_JSON_HAND.
C28_ProducedHandValid ==
    hand.some => (~validate_hand(hand.v).raised /\ validate_hand(hand.v).errors = << >>)

\* a record of a hand that reached the river with a showdown has been produced
C28_Witness ==
    /\ hand.some
    /\ Len(hand.v.streets) = 3
    /\ hand.v.outcome.showdown
    /\ Len(hand.v.actions) > 4


C29_ValidWitness ==
    /\ pc = "validated_twice"
    /\ ~call.first.v.raised
    /\ call.first.v.errors = << >>


\* the label of the payload handed to from_standard_json, and of the payload that
\* to_payload gives back
GivenLabel == Get(call.payload, "label", NoLabel)
ReturnedLabel == Get(call.result.v, "label", NoLabel)

\* C30 as stated: from_standard_json followed by to_payload gives back the label of
\* every hand labelled "human", "bot" or "ai".
C30_LabelPreserved ==
    (pc = "serialised" /\ GivenLabel \in {Word(human), Word(bot_word), Word(ai)})
        => ReturnedLabel = GivenLabel

\* C30, amended: parsing maps "human" to False and "bot" or "ai" to True; serialising
\* writes "human" for False and "bot" for True, so the round trip gives back the labels
\* "human" and "bot" as they were and "bot" for "ai", and parsing the payload given
\* back yields the flag again.
C30_LabelCanonical ==
    pc = "serialised" =>
        LET flag == call.history.v.label_flag
        IN /\ GivenLabel = Word(human) => flag = Some(FALSE)
           /\ GivenLabel \in {Word(bot_word), Word(ai)} => flag = Some(TRUE)
           /\ flag.some => ReturnedLabel = Word(IF flag.v THEN bot_word ELSE human)
           /\ GivenLabel \in {Word(human), Word(bot_word)} => ReturnedLabel = GivenLabel
           /\ GivenLabel = Word(ai) => ReturnedLabel = Word(bot_word)
           /\ flag.some => from_standard_json(call.result.v).label_flag = flag

\* a hand labelled "ai" has been parsed and serialised
C30_Witness ==
    /\ pc = "serialised"
    /\ GivenLabel = Word(ai)
    /\ call.history.v.label_flag = Some(TRUE)
    /\ ReturnedLabel = Word(bot_word)


\* C31: majority_quorum(n) counts the votes of the other validators only: it is
\* floor((n - 1) / 2) + 1 for n >= 2, the least number of votes that is more than half
\* of the n - 1 others, and 0 for n <= 1, negative n included.
C31_MajorityOfOthers ==
    pc = "quorum_done" =>
        LET n == call.total_validators
            q == call.result.v
        IN /\ n <= 1 => q = 0
           /\ n >= 2 => (q = ((n - 1) \div 2) + 1 /\ 2 * q > n - 1 /\ 2 * (q - 1) <= n - 1)
           /\ n = 2 => q = 1
           /\ n = 3 => q = 2
           /\ n = 6 => q = 3
           /\ n = 7 => q = 4

\* the quorum of seven validators has been computed
C31_Witness ==
    /\ pc = "quorum_done"
    /\ call.total_validators = 7
    /\ call.result.v = 4

\* the quorum of a negative number of validators has been computed
C31_NegativeWitness ==
    /\ pc = "quorum_done"
    /\ call.total_validators < 0
    /\ call.result.v = 0


\* the seat indexes of the players of the hand
HandPlayers == {h.active_players[k] : k \in 1 .. Len(h.active_players)}

RECURSIVE SumOn(_, _)
\* the sum of f over the set of indexes
SumOn(f, indexes) ==
    IF indexes = {} THEN 0
    ELSE LET i == CHOOSE j \in indexes : TRUE
         IN f[i] + SumOn(f, indexes \ {i})

\* the chips taken from the stacks of the hand's players since the hand began
ChipsTaken ==
    SumOn([i \in HandPlayers |-> h.start_stacks[i] - session.players[i].stack],
          HandPlayers)

\* the hand is being played: blinds posted, record not yet made
InPlay == pc \in {"for", "while", "after_round"}

\* C32: chips are conserved over every produced hand: while it is played the true pot
\* is the chips taken from the players' stacks, and after it the stacks add up to the
\* stacks at its start minus the rake.
C32_ChipsConserved ==
    /\ InPlay => h.pot_true = ChipsTaken
    /\ (pc = "hand_done" /\ hand.some) => ChipsTaken = hand.v.outcome.rake

\* the part of C32 that holds: a hand without a raise and without an uncalled bet
\* return leaves the stacks at their sum at its start minus the rake
C32_ConservedWithoutRaise ==
    (/\ pc = "hand_done"
     /\ hand.some
     /\ \A k \in 1 .. Len(hand.v.actions) :
           hand.v.actions[k].action_type \notin {"raise", "uncalled_bet_return"})
        => ChipsTaken = hand.v.outcome.rake


\* C33: the chips a player is recorded as investing in a hand, on the street and in
\* all, never exceed the stack the player had when the hand began.
C33_InvestedWithinStack ==
    (InPlay \/ pc = "hand_done") =>
        \A i \in HandPlayers :
            /\ session.players[i].total_invested <= h.start_stacks[i]
            /\ session.players[i].invested_this_street <= h.start_stacks[i]


\* the step asks a player for a decision and logs it
DecisionLogged == pc = "for" /\ Len(h'.actions) > Len(h.actions)

\* a fold of the seat is in the log
FoldLogged(actions, seat) ==
    \E k \in 1 .. Len(actions) :
        actions[k].actor_seat = seat /\ actions[k].action_type = "fold"

\* C34: once a player has folded no decision is requested from that player and no fold,
\* check, call, bet or raise is logged for that seat any more; a player whose stack
\* is 0 is never asked for a decision.
C34_NoDecisionAfterFold ==
    [][DecisionLogged =>
         /\ ~session.players[Decider].folded
         /\ session.players[Decider].stack > 0
         /\ ~FoldLogged(h.actions, Decider + 1)]_vars

\* after a fold the hand went on to a later street and the others acted on it, and a
\* player of the hand stands without chips while decisions are taken
C34_Witness ==
    /\ InPlay
    /\ \E k, j \in 1 .. Len(h.actions) :
          /\ k < j
          /\ h.actions[k].action_type = "fold"
          /\ h.actions[j].street # h.actions[k].street
          /\ h.actions[j].action_type \in {"check", "call", "bet", "raise"}
    /\ \E i \in HandPlayers :
          /\ ~session.players[i].folded
          /\ session.players[i].stack = 0


\* the record's player with the uid
RecordPlayer(uid) ==
    hand.v.players[CHOOSE k \in 1 .. Len(hand.v.players) : hand.v.players[k].player_uid = uid]

\* C35: each player's starting_stack in the record is the stack the player held when
\* the hand began, before the blinds, for the winner as for every other participant.
C35_StartingStackAtStart ==
    (pc = "hand_done" /\ hand.some) =>
        \A i \in HandPlayers :
            RecordPlayer(session.players[i].uid).starting_stack = h.start_stacks[i]

\* the part of C35 that holds: in a hand without a raise the starting_stack of every
\* participant but the winner is the stack at the start of the hand
C35_LosersWithoutRaise ==
    (/\ pc = "hand_done"
     /\ hand.some
     /\ \A k \in 1 .. Len(hand.v.actions) : hand.v.actions[k].action_type # "raise")
        => \A i \in HandPlayers :
              session.players[i].uid # hand.v.outcome.winners[1]
                => RecordPlayer(session.players[i].uid).starting_stack = h.start_stacks[i]


\* C36: in every hand record the first action has pot_before = 0, each later action's
\* pot_before is the pot_after of the action before it, across streets too, and
\* outcome.total_pot is the pot_after of the last action.
C36_PotChain ==
    hand.some =>
        LET actions == hand.v.actions
        IN /\ actions # << >>
           /\ actions[1].pot_before = 0
           /\ \A k \in 2 .. Len(actions) : actions[k].pot_before = actions[k - 1].pot_after
           /\ hand.v.outcome.total_pot = actions[Len(actions)].pot_after

\* a record that goes past the preflop street, with a raise and, after it, an
\* uncalled bet return on a later street than preflop
C36_Witness ==
    /\ hand.some
    /\ \E k, l \in 1 .. Len(hand.v.actions) :
          /\ k < l
          /\ hand.v.actions[k].action_type = "raise"
          /\ hand.v.actions[l].action_type = "uncalled_bet_return"
          /\ hand.v.actions[l].street # PREFLOP


\* the uid of the player the record lists on a seat, 0 when no listed player has it
ListedOn(record, seat) ==
    LET at == {k \in 1 .. Len(record.players) : record.players[k].seat = seat}
    IN IF Cardinality(at) = 1 THEN record.players[CHOOSE k \in at : TRUE].player_uid ELSE 0

\* the uid of the player that sat on a seat of the table while the hand was played
SeatedOn(seat) ==
    LET at == {i \in HandPlayers : session.players[i].seat = seat}
    IN IF Cardinality(at) = 1 THEN session.players[CHOOSE i \in at : TRUE].uid ELSE 0

\* C37: after rotation and contiguization every action's actor_seat is the seat of the
\* player who made the action at the table, every actor_seat is the seat of a listed
\* player, and metadata.hero_seat is the seat of the hero.
C37_CanonicalConsistent ==
    (pc = "hand_done" /\ hand.some) =>
        /\ Len(hand.v.actions) = Len(h.actions)
        /\ \A k \in 1 .. Len(h.actions) :
              /\ ListedOn(hand.v, hand.v.actions[k].actor_seat) # 0
              /\ ListedOn(hand.v, hand.v.actions[k].actor_seat) = SeatedOn(h.actions[k].actor_seat)
        /\ ListedOn(hand.v, hand.v.metadata.hero_seat) = HERO_UID

\* a record whose seats were both rotated and closed up: the button was not on seat 1,
\* and some player's seat in the record is neither the table seat nor the rotated one
C37_Witness ==
    /\ pc = "hand_done" /\ hand.some
    /\ session.button_position # 0
    /\ \E k \in 1 .. Len(h.actions) :
          LET shift == session.button_position % session.max_seats
              rotated == ((h.actions[k].actor_seat - 1 - shift) % session.max_seats) + 1
          IN /\ hand.v.actions[k].actor_seat # h.actions[k].actor_seat
             /\ hand.v.actions[k].actor_seat # rotated


\* the seat indexes of the seated players, the hero among them
Seated == {i \in SeatIdx(session.max_seats) : ~IsNone(session.players[i])}

\* the names of the pool
PoolNames == {session.available_names[k] : k \in 1 .. Len(session.available_names)}

\* C38: at every point of a table session no two seated players share a uid and no
\* seated player's uid is in the pool of available names, through joins, churn
\* removals, which return the name to the pool, and bust removals.
C38_UidsUniqueAndOffPool ==
    /\ \A i, j \in Seated : session.players[i].uid = session.players[j].uid => i = j
    /\ \A i \in Seated : session.players[i].uid \notin PoolNames

\* after the churn of a session: a bot has gone bust and was taken off the table, and
\* the name on top of the pool is one that a churn removal returned
C38_Witness ==
    /\ gen.hand_in_session = 2
    /\ BustedOut > 0
    /\ session.available_names # << >>
    /\ session.available_names[Len(session.available_names)] # Len(session.available_names) + 1

\* after the churn of a session a bot sits under a name that the table did not start with
C38_JoinWitness ==
    /\ gen.hand_in_session = 2
    /\ \E i \in Seated : /\ session.players[i].uid # HERO_UID
                         /\ session.players[i].uid <= Len(session.available_names) + 1


\* how often a batch stands in a list
Times(seq, b) == Cardinality({k \in 1 .. Len(seq) : seq[k] = b})

\* C39: in a forward cycle with batch size N at most N - len(pending) batches are
\* fetched from the provider; the cycle takes exactly the first N pending batches and
\* removes them from the buffer, or takes none when fewer than N are buffered; with
\* several cycles under validator.lock every batch the provider handed out is either in
\* the buffer or was handed to one cycle, once.
C39_ForwardBuffer ==
    pc = "forward" =>
        /\ \A c \in Cycles :
              LET my == call.cycles[c]
                  had == Len(my.pending) - Len(my.new_batches)
              IN /\ my.at \in {"take", "release", "released"} =>
                       /\ Len(my.new_batches) <= Max(0, my.n - had)
                       /\ my.need = Max(0, my.n - had)
                 /\ my.at = "release" =>
                       IF Len(my.pending) >= my.n
                       THEN /\ my.batches = SubSeq(my.pending, 1, my.n)
                            /\ call.pending_batches
                                   = SubSeq(my.pending, my.n + 1, Len(my.pending))
                       ELSE /\ my.batches = << >>
                            /\ call.pending_batches = my.pending
        /\ \A b \in 1 .. call.fetched :
              Times(call.pending_batches, b) + Times(call.handed, b) = 1
        /\ \A k \in 1 .. Len(call.pending_batches) : call.pending_batches[k] <= call.fetched
        /\ \A k \in 1 .. Len(call.handed) : call.handed[k] <= call.fetched

\* a cycle has taken the first batches of a longer buffer and still holds the lock
\* while another cycle waits for it, after an earlier cycle took batches too
C39_Witness ==
    /\ pc = "forward"
    /\ \E c, d \in Cycles :
          /\ c # d
          /\ call.cycles[c].at = "release"
          /\ call.cycles[c].batches # << >>
          /\ call.pending_batches # << >>
          /\ call.cycles[d].at = "lock"
          /\ Len(call.handed) > Len(call.cycles[c].batches)

\* a cycle found fewer than N batches buffered after the provider answered short, and
\* took none
C39_NoneWitness ==
    /\ pc = "forward"
    /\ \E c \in Cycles :
          /\ call.cycles[c].at = "release"
          /\ call.cycles[c].batches = << >>
          /\ call.cycles[c].new_batches # << >>

=============================================================================
